---- MODULE Spec2Model ----
(***************************************************************************)
(* ollama-proxy.                                                           *)
(*                                                                         *)
(*   Spec       one request through the gateway                            *)
(*     main.rs               unmap_model, handle_chat, handle_generate,    *)
(*                           handle_tags, collect_content_from_stream,     *)
(*                           load_providers                                *)
(*     ollama_provider.rs    OllamaProvider::chat   (NDJSON decoder)       *)
(*     openai_provider.rs    OpenAIProvider::chat   (SSE decoder)          *)
(*   SpecCache  tasks calling OllamaProvider::get_models_cached            *)
(*   SpecTasks  requests in flight at once, each in unmap_model            *)
(*   SpecBuild  build_request_body of both providers                       *)
(*   SpecPull   one streaming request whose client may go away             *)
(*   SpecLive   one request whose consumer keeps pulling (weak fairness)   *)
(*   SpecDemo   one /api/chat request to a demo server                     *)
(*     demo.rs               chat, FakeProvider::chat_stream,              *)
(*                           ChatChunkStream::new                          *)
(*     src/demo.rs           chat                                          *)
(*   SpecSse    one request through the OpenAIStyle decoder, every shape   *)
(*              of SSE line                                                *)
(*                                                                         *)
(* Text is a sequence of wire units.  "LF" is the byte 0x0A, "SP" the      *)
(* space 0x20, "HT" a whitespace byte other than these two (tab, CR), "C3" *)
(* and "A9" are the two bytes of U+00E9; every other unit is a run of one  *)
(* or more                                                                 *)
(* ASCII bytes that are neither whitespace nor LF.  The decoders look only *)
(* for LF and whitespace and hand whole lines to serde_json, and a run of  *)
(* ASCII bytes is valid UTF-8 wherever it is cut, so a cut inside a run    *)
(* behaves as a cut at one of its ends.                                    *)
(*                                                                         *)
(* JSON text is written with one unit per syntactic part:                  *)
(*   "{"   {                         "}"   }                               *)
(*   "M"   "message":{"content":"    "m"   "},                             *)
(*   "T"   "done":true               "F"   "done":false                    *)
(*   "d"   data:                     "DONE" [DONE]                         *)
(*   "{c"  {"choices":[              "]}"  ]}                              *)
(*   "{d"  {"delta":{                "}}"  }}                              *)
(*   "k"   "content":"               "q"   "                               *)
(*   "{}"  {}                        ","   ,                               *)
(*   "ev"  event:ping                "x"   text that is not JSON           *)
(*   ":"   : keep-alive (an SSE comment)                                   *)
(* Names (providers, models) are sequences of the characters "[", "]",     *)
(* "-" and of runs of other characters.                                    *)
(***************************************************************************)
EXTENDS Integers, Sequences, FiniteSets, TLC

VARIABLES
    providers,     \* AppState.providers: the registry built by load_providers
    request,       \* the inbound request: endpoint, model, stream
    upstream,      \* what the upstream does for this request: send outcome, body
    hpc,           \* position of the handler
    scan,          \* unmap_model: index of the provider whose catalog is read next
    provider,      \* unmap_model's result: index of the provider, 0 before
    model,         \* unmap_model's result: the local model name
    dpc,           \* position of the provider's chunk stream (the generator)
    pos,           \* number of body units the byte stream has delivered
    buffer,        \* the decoder's `buffer`
    stream_ended,  \* OpenAIProvider::chat's `stream_ended`
    items,         \* every item the chunk stream has yielded, in order
    consumed,      \* number of items the handler has taken from the stream
    content,       \* collect_content_from_stream's `content`
    body,          \* the streaming response body written so far
    response,      \* the handler's response: status 0 while there is none
    tags_models,   \* handle_tags' `models`, the list it answers with
    cache,         \* OllamaProvider.models: the catalog inside the RwLock
    rwlock,        \* the RwLock itself: callers holding it for reading, for writing
    cpc,           \* get_models_cached: position of each caller
    fetched,       \* get_models_cached: each caller's local `models`
    returns,       \* get_models_cached: every value returned, in order
    fetch_log,     \* every upstream catalog fetch (get_models) made, in order
    tasks,         \* concurrent requests: each one's model name and resolution
    build,         \* build_request_body: its arguments and the bodies returned
    demo           \* a demo server's /api/chat: the request and the response

\* One request through the gateway.
request_vars == <<providers, request, upstream, hpc, scan, provider, model, dpc, pos,
                  buffer, stream_ended, items, consumed, content, body, response,
                  tags_models>>

\* The catalog cache of one OllamaProvider and its callers.
cache_vars == <<cache, rwlock, cpc, fetched, returns, fetch_log>>

\* What a single chat or generate request leaves alone.
other_vars == <<cache_vars, tasks, build, demo>>

vars == <<request_vars, other_vars>>

-----------------------------------------------------------------------------
(* Bounds *)

\* Lines of an upstream body.
MaxLines == 3
\* Providers of a registry.
MaxProviders == 2
\* Requests in flight at once.
MaxRequests == 2
\* Messages of a chat request.
MaxMessages == 2
\* Tasks that call get_models_cached on one provider.
MaxCallers == 2
\* Calls of get_models_cached those tasks make in total.
MaxCalls == 3
\* Lines of an SSE body.
MaxFrames == 2

-----------------------------------------------------------------------------
(* Text *)

LF == "LF"
SP == "SP"
HT == "HT"

\* char::is_whitespace
Whitespace == {SP, HT, LF}

\* Units that may stand inside a JSON string.
TextUnit == {"hel", "lo", "Hi", "C3", "A9"}

RECURSIVE FindFrom(_, _, _)
FindFrom(s, u, i) ==
    IF i > Len(s) THEN 0 ELSE IF s[i] = u THEN i ELSE FindFrom(s, u, i + 1)

\* buffer.find('\n'): the index of the first LF, 0 for None.
find(s) == FindFrom(s, LF, 1)

RECURSIVE trim_start(_)
trim_start(s) ==
    IF s # <<>> /\ Head(s) \in Whitespace THEN trim_start(Tail(s)) ELSE s

RECURSIVE trim_end(_)
trim_end(s) ==
    IF s # <<>> /\ s[Len(s)] \in Whitespace
    THEN trim_end(SubSeq(s, 1, Len(s) - 1)) ELSE s

\* str::trim
trim(s) == trim_end(trim_start(s))

\* std::str::from_utf8(&chunk).is_ok(), on the bytes of one fragment.
from_utf8_ok(bytes) ==
    \A i \in 1..Len(bytes) :
        /\ bytes[i] = "C3" => (i < Len(bytes) /\ bytes[i + 1] = "A9")
        /\ bytes[i] = "A9" => (i > 1 /\ bytes[i - 1] = "C3")

\* line.strip_prefix(p): <<TRUE, rest>> or <<FALSE, <<>>>>.
strip_prefix(line, p) ==
    IF Len(line) >= Len(p) /\ SubSeq(line, 1, Len(p)) = p
    THEN [some |-> TRUE, rest |-> SubSeq(line, Len(p) + 1, Len(line))]
    ELSE [some |-> FALSE, rest |-> <<>>]

IsText(s) == \A i \in 1..Len(s) : s[i] \in TextUnit

-----------------------------------------------------------------------------
(* Items of a chunk stream: Result<StreamChatChunk, ProviderError>.        *)
(* created_at is the clock and is left out; an error item carries only its *)
(* kind.                                                                   *)

StreamChatChunk(m, c, d) ==
    [ok |-> TRUE, model |-> m, role |-> "assistant", content |-> c, done |-> d,
     err |-> "none"]

ProviderError(kind) ==
    [ok |-> FALSE, model |-> <<>>, role |-> "", content |-> <<>>, done |-> FALSE,
     err |-> kind]

-----------------------------------------------------------------------------
(* serde_json::from_str on the two wire shapes *)

None == [some |-> FALSE, content |-> <<>>]
Some(c) == [some |-> TRUE, content |-> c]

\* serde_json::from_str::<OllamaChatChunk>(&line):
\*   struct OllamaChatChunk { message: Option<MessageContent>, done: bool }
\* `done` is required; a line of any other shape is an error.
from_str_OllamaChatChunk(line) ==
    LET n == Len(line)
        bad == [ok |-> FALSE, message |-> None, done |-> FALSE]
    IN  IF n < 3 \/ line[1] # "{" \/ line[n] # "}" \/ line[n - 1] \notin {"T", "F"}
        THEN bad
        ELSE IF n = 3
        THEN [ok |-> TRUE, message |-> None, done |-> line[2] = "T"]
        ELSE IF n >= 5 /\ line[2] = "M" /\ line[n - 2] = "m"
                /\ IsText(SubSeq(line, 3, n - 3))
        THEN [ok |-> TRUE, message |-> Some(SubSeq(line, 3, n - 3)),
              done |-> line[n - 1] = "T"]
        ELSE bad

\* One element of `choices`: struct Choice { delta: Option<Delta> } with
\* struct Delta { content: Option<String> }, read from the head of s.
\* delta is None/Some; a delta's content is None/Some.
ParseChoice(s) ==
    LET bad == [ok |-> FALSE, delta |-> FALSE, content |-> None, rest |-> <<>>]
        q == FindFrom(s, "q", 1)
    IN  IF s = <<>> THEN bad
        ELSE IF Head(s) = "{}"
        THEN [ok |-> TRUE, delta |-> FALSE, content |-> None, rest |-> Tail(s)]
        ELSE IF Head(s) # "{d" \/ Len(s) < 2 THEN bad
        ELSE IF s[2] = "}}"
        THEN [ok |-> TRUE, delta |-> TRUE, content |-> None,
              rest |-> SubSeq(s, 3, Len(s))]
        ELSE IF s[2] = "k" /\ q > 2 /\ q < Len(s) /\ s[q + 1] = "}}"
                /\ IsText(SubSeq(s, 3, q - 1))
        THEN [ok |-> TRUE, delta |-> TRUE, content |-> Some(SubSeq(s, 3, q - 1)),
              rest |-> SubSeq(s, q + 2, Len(s))]
        ELSE bad

\* The elements of `choices`, comma separated: <<ok, sequence of choices>>.
RECURSIVE ParseChoices(_)
ParseChoices(s) ==
    LET c == ParseChoice(s)
        one == [delta |-> c.delta, content |-> c.content]
    IN  IF ~c.ok THEN [ok |-> FALSE, choices |-> <<>>]
        ELSE IF c.rest = <<>> THEN [ok |-> TRUE, choices |-> <<one>>]
        ELSE IF Head(c.rest) # "," \/ Len(c.rest) < 2
        THEN [ok |-> FALSE, choices |-> <<>>]
        ELSE LET more == ParseChoices(Tail(c.rest))
             IN  [ok |-> more.ok, choices |-> <<one>> \o more.choices]

\* serde_json::from_str::<OpenaiChatChunk>(data):
\*   struct OpenaiChatChunk { choices: Vec<Choice> }
from_str_OpenaiChatChunk(data) ==
    LET n == Len(data)
    IN  IF n < 2 \/ data[1] # "{c" \/ data[n] # "]}"
        THEN [ok |-> FALSE, choices |-> <<>>]
        ELSE IF n = 2 THEN [ok |-> TRUE, choices |-> <<>>]
        ELSE ParseChoices(SubSeq(data, 2, n - 1))

-----------------------------------------------------------------------------
(* The decode loops.  One pass of `while let Some(line_end) =               *)
(* buffer.find('\n')` takes the first line off the buffer; `out` holds     *)
(* what the pass yields (nothing or one item) and `ctl` where control goes: *)
(* "loop" (next pass), "return" (the generator ends), "break" (the SSE      *)
(* sentinel: leave both loops).                                             *)

Pass(b, o, c) == [buffer |-> b, out |-> o, ctl |-> c]

\* let line = buffer[..line_end].trim().to_string();
FirstLine(buf) == trim(SubSeq(buf, 1, find(buf) - 1))

\* buffer.drain(..=line_end);
Drain(buf) == SubSeq(buf, find(buf) + 1, Len(buf))

\* The inner loop's body without `if chunk.done { return; }`.
OllamaPass_NoReturn(buf, model_name) ==
    LET line == FirstLine(buf)
        rest == Drain(buf)
        chunk == from_str_OllamaChatChunk(line)
    IN  IF line = <<>> THEN Pass(rest, <<>>, "loop")
        ELSE IF ~chunk.ok THEN Pass(rest, <<ProviderError("json")>>, "return")
        ELSE IF chunk.message.some
        THEN Pass(rest,
                  <<StreamChatChunk(model_name, chunk.message.content, chunk.done)>>,
                  "loop")
        ELSE Pass(rest, <<>>, "loop")

\* OllamaProvider::chat, body of the inner while loop.
OllamaPass(buf, model_name) ==
    LET line == FirstLine(buf)
        rest == Drain(buf)
        chunk == from_str_OllamaChatChunk(line)
    IN  IF line = <<>> THEN Pass(rest, <<>>, "loop")
        ELSE IF ~chunk.ok THEN Pass(rest, <<ProviderError("json")>>, "return")
        ELSE IF chunk.message.some
        THEN Pass(rest,
                  <<StreamChatChunk(model_name, chunk.message.content, chunk.done)>>,
                  IF chunk.done THEN "return" ELSE "loop")
        ELSE Pass(rest, <<>>, "loop")

\* if line == "data: [DONE]"
IsDoneLine(line) == line = <<"d", SP, "DONE">>

\* The inner loop's body taking the first choice that has content.
OpenAIPass_AnyChoice(buf, model_name) ==
    LET line == FirstLine(buf)
        rest == Drain(buf)
        data == strip_prefix(line, <<"d", SP>>)
        chunk == from_str_OpenaiChatChunk(data.rest)
        with == {i \in 1..Len(chunk.choices) :
                    chunk.choices[i].delta /\ chunk.choices[i].content.some}
        first == chunk.choices[CHOOSE i \in with : \A j \in with : i <= j]
    IN  IF line = <<>> THEN Pass(rest, <<>>, "loop")
        ELSE IF IsDoneLine(line) THEN Pass(rest, <<>>, "break")
        ELSE IF ~data.some THEN Pass(rest, <<>>, "loop")
        ELSE IF ~chunk.ok THEN Pass(rest, <<ProviderError("json")>>, "return")
        ELSE IF with # {}
        THEN Pass(rest, <<StreamChatChunk(model_name, first.content.content, FALSE)>>,
                  "loop")
        ELSE Pass(rest, <<>>, "loop")

\* The inner loop's body taking `data:` for the prefix, the space optional.
OpenAIPass_LoosePrefix(buf, model_name) ==
    LET line == FirstLine(buf)
        tight == strip_prefix(line, <<"d", SP>>)
        data == IF tight.some THEN tight ELSE strip_prefix(line, <<"d">>)
        chunk == from_str_OpenaiChatChunk(data.rest)
        first == chunk.choices[1]
    IN  IF line = <<>> THEN Pass(Drain(buf), <<>>, "loop")
        ELSE IF IsDoneLine(line) THEN Pass(Drain(buf), <<>>, "break")
        ELSE IF ~data.some THEN Pass(Drain(buf), <<>>, "loop")
        ELSE IF ~chunk.ok THEN Pass(Drain(buf), <<ProviderError("json")>>, "return")
        ELSE IF chunk.choices # <<>> /\ first.delta /\ first.content.some
        THEN Pass(Drain(buf),
                  <<StreamChatChunk(model_name, first.content.content, FALSE)>>, "loop")
        ELSE Pass(Drain(buf), <<>>, "loop")

\* OpenAIProvider::chat, body of the inner while loop.
OpenAIPass(buf, model_name) ==
    LET line == FirstLine(buf)
        rest == Drain(buf)
        data == strip_prefix(line, <<"d", SP>>)
        chunk == from_str_OpenaiChatChunk(data.rest)
        first == chunk.choices[1]
    IN  IF line = <<>> THEN Pass(rest, <<>>, "loop")
        ELSE IF IsDoneLine(line) THEN Pass(rest, <<>>, "break")
        ELSE IF ~data.some THEN Pass(rest, <<>>, "loop")
        ELSE IF ~chunk.ok THEN Pass(rest, <<ProviderError("json")>>, "return")
        ELSE IF chunk.choices # <<>> /\ first.delta /\ first.content.some
        THEN Pass(rest, <<StreamChatChunk(model_name, first.content.content, FALSE)>>,
                  "loop")
        ELSE Pass(rest, <<>>, "loop")

\* The final chunk OpenAIProvider::chat yields after its loops.
final_chunk(model_name) == StreamChatChunk(model_name, <<>>, TRUE)

-----------------------------------------------------------------------------
(* The registry *)

\* The format string without its provider: format!("[]-{}", model_name).
map_model_name_NoProvider(provider_name, model_name) ==
    <<"[", "]", "-">> \o model_name

\* pub fn map_model_name(provider_name, model_name) -> String
map_model_name(provider_name, model_name) ==
    <<"[">> \o provider_name \o <<"]", "-">> \o model_name

\* struct Model, the fields this design reads: name (local) and model
\* (namespaced).
Model(n, m) == [name |-> n, model |-> m]

\* load_providers: one handle per ProviderInfo, in configuration order, each
\* with its declared models namespaced under the provider's name.  `tags` is
\* what the provider's upstream lists at GET /api/tags (read by the
\* OllamaStyle handle only).
load_providers(config) ==
    [i \in 1..Len(config) |->
        [name |-> config[i].name,
         api_type |-> config[i].api_type,
         models |-> [j \in 1..Len(config[i].models) |->
                        Model(config[i].models[j],
                              map_model_name(config[i].name, config[i].models[j]))],
         tags |-> config[i].tags]]

\* OllamaProvider::get_models: the upstream's list, each `model` namespaced
\* under the handle's name, every other field (name) kept.
OllamaGetModels(self) ==
    [j \in 1..Len(self.tags) |->
        Model(self.tags[j].name, map_model_name(self.name, self.tags[j].model))]

\* OpenAIProvider::get_models: the configured list.
OpenAIGetModels(self) == self.models

\* provider.get_models() through the Provider trait object.
get_models(self) ==
    IF self.api_type = "Ollama" THEN OllamaGetModels(self) ELSE OpenAIGetModels(self)

\* models.iter().find(|m| m.model == model_name): the index of the first
\* match, 0 for None.
\* The search comparing the local name: find(|m| m.name == model_name).
RECURSIVE FindModel_ByName(_, _, _)
FindModel_ByName(models, model_name, j) ==
    IF j > Len(models) THEN 0
    ELSE IF models[j].name = model_name THEN j
    ELSE FindModel_ByName(models, model_name, j + 1)

RECURSIVE FindModel(_, _, _)
FindModel(models, model_name, j) ==
    IF j > Len(models) THEN 0
    ELSE IF models[j].model = model_name THEN j
    ELSE FindModel(models, model_name, j + 1)

-----------------------------------------------------------------------------
(* The handlers: handle_chat and handle_generate *)

NoResponse == [status |-> 0, model |-> <<>>, content |-> <<>>, done |-> FALSE]

\* Err((StatusCode, String)): an error response.
ErrResponse(code) == [status |-> code, model |-> <<>>, content |-> <<>>, done |-> FALSE]

\* Json(ChatResponse) and Json(GenerateResponse): status 200, the text in
\* message.content (chat) or response (generate), done: true; the duration
\* and count fields are constant zeros.
OkResponse(m, text) == [status |-> 200, model |-> m, content |-> text, done |-> TRUE]

\* The loop going through every provider and keeping the last match.
unmap_model_LastMatch ==
    /\ hpc = "unmap"
    /\ IF scan > Len(providers)
       THEN /\ hpc' = IF provider # 0 THEN "chat" ELSE "panic"
            /\ UNCHANGED <<scan, provider, model>>
       ELSE LET models == get_models(providers[scan])
                j == FindModel(models, request.model, 1)
            IN  /\ scan' = scan + 1
                /\ provider' = IF j # 0 THEN scan ELSE provider
                /\ model' = IF j # 0 THEN models[j].name ELSE model
                /\ UNCHANGED hpc
    /\ UNCHANGED <<providers, request, upstream, dpc, pos, buffer, stream_ended,
                   items, consumed, content, body, response>>
    /\ UNCHANGED <<tags_models, other_vars>>

\* unmap_model, one pass of `for provider in providers` (it awaits
\* get_models in each), or the panic! after the loop.
unmap_model ==
    /\ hpc = "unmap"
    /\ IF scan > Len(providers)
       THEN /\ hpc' = "panic"
            /\ UNCHANGED <<scan, provider, model>>
       ELSE LET models == get_models(providers[scan])
                j == FindModel(models, request.model, 1)
            IN  IF j # 0
                THEN /\ provider' = scan
                     /\ model' = models[j].name
                     /\ hpc' = "chat"
                     /\ UNCHANGED scan
                ELSE /\ scan' = scan + 1
                     /\ UNCHANGED <<hpc, provider, model>>
    /\ UNCHANGED <<providers, request, upstream, dpc, pos, buffer, stream_ended,
                   items, consumed, content, body, response>>
    /\ UNCHANGED <<tags_models, other_vars>>

\* provider.chat(..): Err when build_client fails, else the lazy stream
\* (nothing is sent before the first poll).
chat_ok == upstream.send # "no_client"

\* handle_generate from the return of unmap_model to the call of
\* collect_content_from_stream.
handle_generate ==
    /\ hpc = "chat"
    /\ request.endpoint = "generate"
    /\ IF chat_ok
       THEN hpc' = "collect" /\ dpc' = "send" /\ UNCHANGED response
       ELSE hpc' = "done" /\ response' = ErrResponse(500) /\ UNCHANGED dpc
    /\ UNCHANGED <<providers, request, upstream, scan, provider, model, pos, buffer,
                   stream_ended, items, consumed, content, body>>
    /\ UNCHANGED <<tags_models, other_vars>>

\* payload.stream.unwrap_or(true)
stream_mode == request.stream # "false"

\* handle_chat from the return of unmap_model to the branch on stream_mode;
\* in streaming mode the response (status 200, application/x-ndjson) is
\* returned here and its body is produced as the stream is polled.
handle_chat ==
    /\ hpc = "chat"
    /\ request.endpoint = "chat"
    /\ IF ~chat_ok
       THEN hpc' = "done" /\ response' = ErrResponse(500) /\ UNCHANGED dpc
       ELSE IF stream_mode
       THEN hpc' = "relay" /\ dpc' = "send" /\ response' = OkResponse(<<>>, <<>>)
       ELSE hpc' = "collect" /\ dpc' = "send" /\ UNCHANGED response
    /\ UNCHANGED <<providers, request, upstream, scan, provider, model, pos, buffer,
                   stream_ended, items, consumed, content, body>>
    /\ UNCHANGED <<tags_models, other_vars>>

\* The Ok arm without its `if !chunk.done`.
push_content_Always(text, chunk) == text \o chunk.content

\* collect_content_from_stream, the Ok arm of its loop.
push_content(text, chunk) ==
    IF ~chunk.done THEN text \o chunk.content ELSE text

\* The loop's Err arm returning what it has: Ok(content).
collect_item_Partial ==
    /\ hpc = "collect"
    /\ consumed < Len(items)
    /\ LET result == items[consumed + 1]
       IN  IF result.ok
           THEN /\ content' = push_content(content, result)
                /\ UNCHANGED <<hpc, response>>
           ELSE /\ hpc' = "done"
                /\ response' = OkResponse(model, content)
                /\ UNCHANGED content
    /\ consumed' = consumed + 1
    /\ UNCHANGED <<providers, request, upstream, scan, provider, model, dpc, pos,
                   buffer, stream_ended, items, body>>
    /\ UNCHANGED <<tags_models, other_vars>>

\* collect_content_from_stream, one pass of its loop; on Err the handler
\* (handle_chat or handle_generate) answers 500 and the stream is dropped.
collect_item ==
    /\ hpc = "collect"
    /\ consumed < Len(items)
    /\ LET result == items[consumed + 1]
       IN  IF result.ok
           THEN /\ content' = push_content(content, result)
                /\ UNCHANGED <<hpc, response>>
           ELSE /\ hpc' = "done"
                /\ response' = ErrResponse(500)
                /\ UNCHANGED content
    /\ consumed' = consumed + 1
    /\ UNCHANGED <<providers, request, upstream, scan, provider, model, dpc, pos,
                   buffer, stream_ended, items, body>>
    /\ UNCHANGED <<tags_models, other_vars>>

\* The response built with the name the client sent.
collect_end_EchoesRequest ==
    /\ hpc = "collect"
    /\ dpc = "end"
    /\ consumed = Len(items)
    /\ hpc' = "done"
    /\ response' = OkResponse(request.model, content)
    /\ UNCHANGED <<providers, request, upstream, scan, provider, model, dpc, pos,
                   buffer, stream_ended, items, consumed, content, body>>
    /\ UNCHANGED <<tags_models, other_vars>>

\* collect_content_from_stream at the end of the stream (Ok(content)), and
\* the response the handler builds from it.
collect_end ==
    /\ hpc = "collect"
    /\ dpc = "end"
    /\ consumed = Len(items)
    /\ hpc' = "done"
    /\ response' = OkResponse(model, content)
    /\ UNCHANGED <<providers, request, upstream, scan, provider, model, dpc, pos,
                   buffer, stream_ended, items, consumed, content, body>>
    /\ UNCHANGED <<tags_models, other_vars>>

\* serde_json::to_string(&chunk) followed by format!("{}\n", s): one line of
\* the NDJSON body.
to_line(chunk) ==
    <<"{", "model:">> \o chunk.model \o <<",", "M">> \o chunk.content
        \o <<"m", IF chunk.done THEN "T" ELSE "F", "}", LF>>

\* handle_chat's streaming body, one item: wrapped_stream passes it on and
\* `.map(|obj| serde_json::to_string(&obj.unwrap()))` writes its line; the
\* unwrap panics on an Err item.
relay_item ==
    /\ hpc = "relay"
    /\ consumed < Len(items)
    /\ LET item == items[consumed + 1]
       IN  IF item.ok
           THEN body' = body \o to_line(item) /\ UNCHANGED hpc
           ELSE hpc' = "unwrap_panic" /\ UNCHANGED body
    /\ consumed' = consumed + 1
    /\ UNCHANGED <<providers, request, upstream, scan, provider, model, dpc, pos,
                   buffer, stream_ended, items, content, response>>
    /\ UNCHANGED <<tags_models, other_vars>>

\* handle_chat's streaming body at the end of the stream.
relay_end ==
    /\ hpc = "relay"
    /\ dpc = "end"
    /\ consumed = Len(items)
    /\ hpc' = "done"
    /\ UNCHANGED <<providers, request, upstream, scan, provider, model, dpc, pos,
                   buffer, stream_ended, items, consumed, content, body, response>>
    /\ UNCHANGED <<tags_models, other_vars>>

\* The response writer drops Body::from_stream(..) before its end (the
\* client went away): wrapped_stream and the provider stream inside it are
\* dropped where they stand.
drop_stream ==
    /\ hpc = "relay"
    /\ hpc' = "dropped"
    /\ UNCHANGED <<providers, request, upstream, scan, provider, model, dpc, pos,
                   buffer, stream_ended, items, consumed, content, body, response>>
    /\ UNCHANGED <<tags_models, other_vars>>

-----------------------------------------------------------------------------
(* The chunk streams.  A stream runs only while its consumer polls it: the  *)
(* handler's loop is awaiting stream.next() and has taken every item        *)
(* yielded so far.  The 20 ms sleep before an OllamaStyle chunk is one more *)
(* suspension inside the same poll.                                         *)

\* A stream that runs whether or not it is polled.
Polled_Always == dpc # "none"

Polled == hpc \in {"collect", "relay"} /\ consumed = Len(items)

api_type == providers[provider].api_type

Yield(item) == items' = Append(items, item)

\* The send outcome read as the error it yields.
SendError == ProviderError(upstream.send)

\* The send and the status check without the `return` after their yield.
OllamaSend_NoReturn ==
    /\ Polled /\ dpc = "send" /\ api_type = "Ollama"
    /\ dpc' = "next"
    /\ IF upstream.send = "ok" THEN UNCHANGED items ELSE Yield(SendError)
    /\ UNCHANGED <<providers, request, upstream, hpc, scan, provider, model, pos,
                   buffer, stream_ended, consumed, content, body, response>>
    /\ UNCHANGED <<tags_models, other_vars>>

\* OllamaProvider::chat: request_builder.send().await and the status check.
OllamaSend ==
    /\ Polled /\ dpc = "send" /\ api_type = "Ollama"
    /\ IF upstream.send = "ok"
       THEN dpc' = "next" /\ UNCHANGED items
       ELSE dpc' = "end" /\ Yield(SendError)
    /\ UNCHANGED <<providers, request, upstream, hpc, scan, provider, model, pos,
                   buffer, stream_ended, consumed, content, body, response>>
    /\ UNCHANGED <<tags_models, other_vars>>

\* A fragment put in front of the buffer instead of behind it.
OllamaNext_Prepend ==
    /\ Polled /\ dpc = "next" /\ api_type = "Ollama"
    /\ \E n \in 1..(Len(upstream.body) - pos) :
        LET chunk == SubSeq(upstream.body, pos + 1, pos + n)
        IN  /\ pos' = pos + n
            /\ IF from_utf8_ok(chunk)
               THEN /\ buffer' = chunk \o buffer
                    /\ dpc' = "lines"
                    /\ UNCHANGED items
               ELSE /\ dpc' = "end"
                    /\ Yield(ProviderError("utf8"))
                    /\ UNCHANGED buffer
    /\ UNCHANGED <<providers, request, upstream, hpc, scan, provider, model,
                   stream_ended, consumed, content, body, response>>
    /\ UNCHANGED <<tags_models, other_vars>>

\* OllamaProvider::chat: stream.next().await gives Some(Ok(chunk)), a
\* fragment of any length; from_utf8 on it; buffer.push_str.
OllamaNext ==
    /\ Polled /\ dpc = "next" /\ api_type = "Ollama"
    /\ \E n \in 1..(Len(upstream.body) - pos) :
        LET chunk == SubSeq(upstream.body, pos + 1, pos + n)
        IN  /\ pos' = pos + n
            /\ IF from_utf8_ok(chunk)
               THEN /\ buffer' = buffer \o chunk
                    /\ dpc' = "lines"
                    /\ UNCHANGED items
               ELSE /\ dpc' = "end"
                    /\ Yield(ProviderError("utf8"))
                    /\ UNCHANGED buffer
    /\ UNCHANGED <<providers, request, upstream, hpc, scan, provider, model,
                   stream_ended, consumed, content, body, response>>
    /\ UNCHANGED <<tags_models, other_vars>>

\* OllamaProvider::chat: stream.next().await gives Some(Err(e)).
OllamaReadError ==
    /\ Polled /\ dpc = "next" /\ api_type = "Ollama"
    /\ dpc' = "end"
    /\ Yield(ProviderError("read"))
    /\ UNCHANGED <<providers, request, upstream, hpc, scan, provider, model, pos,
                   buffer, stream_ended, consumed, content, body, response>>
    /\ UNCHANGED <<tags_models, other_vars>>

\* The end of the byte stream sending the generator back to its line loop.
OllamaEof_Restless ==
    /\ Polled /\ dpc = "next" /\ api_type = "Ollama"
    /\ pos = Len(upstream.body)
    /\ dpc' = "lines"
    /\ UNCHANGED <<providers, request, upstream, hpc, scan, provider, model, pos,
                   buffer, stream_ended, items, consumed, content, body, response>>
    /\ UNCHANGED <<tags_models, other_vars>>

\* The generator decoding what is left in the buffer as a last line when the
\* byte stream ends.
OllamaEof_Flush ==
    /\ Polled /\ dpc = "next" /\ api_type = "Ollama"
    /\ pos = Len(upstream.body)
    /\ dpc' = "end"
    /\ items' = items \o OllamaPass(buffer \o <<LF>>, model).out
    /\ UNCHANGED <<providers, request, upstream, hpc, scan, provider, model, pos,
                   buffer, stream_ended, consumed, content, body, response>>
    /\ UNCHANGED <<tags_models, other_vars>>

\* OllamaProvider::chat: stream.next().await gives None; the generator ends.
OllamaEof ==
    /\ Polled /\ dpc = "next" /\ api_type = "Ollama"
    /\ pos = Len(upstream.body)
    /\ dpc' = "end"
    /\ UNCHANGED <<providers, request, upstream, hpc, scan, provider, model, pos,
                   buffer, stream_ended, items, consumed, content, body, response>>
    /\ UNCHANGED <<tags_models, other_vars>>

\* The inner while loop going on to the next line after every pass.
OllamaLine_GoesOn ==
    /\ Polled /\ dpc = "lines" /\ api_type = "Ollama"
    /\ IF find(buffer) = 0
       THEN dpc' = "next" /\ UNCHANGED <<buffer, items>>
       ELSE LET p == OllamaPass(buffer, model)
            IN  /\ buffer' = p.buffer
                /\ items' = items \o p.out
                /\ dpc' = "lines"
    /\ UNCHANGED <<providers, request, upstream, hpc, scan, provider, model, pos,
                   stream_ended, consumed, content, body, response>>
    /\ UNCHANGED <<tags_models, other_vars>>

\* The inner loop as an `if let`: one line per fragment, then the next read.
OllamaLine_OnePass ==
    /\ Polled /\ dpc = "lines" /\ api_type = "Ollama"
    /\ IF find(buffer) = 0
       THEN dpc' = "next" /\ UNCHANGED <<buffer, items>>
       ELSE LET p == OllamaPass(buffer, model)
            IN  /\ buffer' = p.buffer
                /\ items' = items \o p.out
                /\ dpc' = IF p.ctl = "return" THEN "end" ELSE "next"
    /\ UNCHANGED <<providers, request, upstream, hpc, scan, provider, model, pos,
                   stream_ended, consumed, content, body, response>>
    /\ UNCHANGED <<tags_models, other_vars>>

\* OllamaProvider::chat: the test of the inner while loop and one pass of it.
OllamaLine ==
    /\ Polled /\ dpc = "lines" /\ api_type = "Ollama"
    /\ IF find(buffer) = 0
       THEN dpc' = "next" /\ UNCHANGED <<buffer, items>>
       ELSE LET p == OllamaPass(buffer, model)
            IN  /\ buffer' = p.buffer
                /\ items' = items \o p.out
                /\ dpc' = IF p.ctl = "return" THEN "end" ELSE "lines"
    /\ UNCHANGED <<providers, request, upstream, hpc, scan, provider, model, pos,
                   stream_ended, consumed, content, body, response>>
    /\ UNCHANGED <<tags_models, other_vars>>

\* OpenAIProvider::chat: request.send().await and the status check.
OpenAISend ==
    /\ Polled /\ dpc = "send" /\ api_type = "Openai"
    /\ IF upstream.send = "ok"
       THEN dpc' = "next" /\ UNCHANGED items
       ELSE dpc' = "end" /\ Yield(SendError)
    /\ UNCHANGED <<providers, request, upstream, hpc, scan, provider, model, pos,
                   buffer, stream_ended, consumed, content, body, response>>
    /\ UNCHANGED <<tags_models, other_vars>>

\* OpenAIProvider::chat: stream.next().await gives Some(Ok(chunk)).
OpenAINext ==
    /\ Polled /\ dpc = "next" /\ api_type = "Openai"
    /\ \E n \in 1..(Len(upstream.body) - pos) :
        LET chunk == SubSeq(upstream.body, pos + 1, pos + n)
        IN  /\ pos' = pos + n
            /\ IF from_utf8_ok(chunk)
               THEN /\ buffer' = buffer \o chunk
                    /\ dpc' = "lines"
                    /\ UNCHANGED items
               ELSE /\ dpc' = "end"
                    /\ Yield(ProviderError("utf8"))
                    /\ UNCHANGED buffer
    /\ UNCHANGED <<providers, request, upstream, hpc, scan, provider, model,
                   stream_ended, consumed, content, body, response>>
    /\ UNCHANGED <<tags_models, other_vars>>

\* OpenAIProvider::chat: stream.next().await gives Some(Err(e)).
OpenAIReadError ==
    /\ Polled /\ dpc = "next" /\ api_type = "Openai"
    /\ dpc' = "end"
    /\ Yield(ProviderError("read"))
    /\ UNCHANGED <<providers, request, upstream, hpc, scan, provider, model, pos,
                   buffer, stream_ended, consumed, content, body, response>>
    /\ UNCHANGED <<tags_models, other_vars>>

\* The generator ending with the byte stream, without the final chunk.
OpenAIEof_End ==
    /\ Polled /\ dpc = "next" /\ api_type = "Openai"
    /\ pos = Len(upstream.body)
    /\ dpc' = "end"
    /\ UNCHANGED <<providers, request, upstream, hpc, scan, provider, model, pos,
                   buffer, stream_ended, items, consumed, content, body, response>>
    /\ UNCHANGED <<tags_models, other_vars>>

\* OpenAIProvider::chat: stream.next().await gives None; the outer loop ends
\* and control reaches the final chunk.
OpenAIEof ==
    /\ Polled /\ dpc = "next" /\ api_type = "Openai"
    /\ pos = Len(upstream.body)
    /\ dpc' = "final"
    /\ UNCHANGED <<providers, request, upstream, hpc, scan, provider, model, pos,
                   buffer, stream_ended, items, consumed, content, body, response>>
    /\ UNCHANGED <<tags_models, other_vars>>

\* The inner while loop reaching the final chunk after a JSON error too.
OpenAILine_FinalAfterError ==
    /\ Polled /\ dpc = "lines" /\ api_type = "Openai"
    /\ IF find(buffer) = 0
       THEN dpc' = "next" /\ UNCHANGED <<buffer, items, stream_ended>>
       ELSE LET p == OpenAIPass(buffer, model)
            IN  /\ buffer' = p.buffer
                /\ items' = items \o p.out
                /\ stream_ended' = (p.ctl = "break")
                /\ dpc' = IF p.ctl = "loop" THEN "lines" ELSE "final"
    /\ UNCHANGED <<providers, request, upstream, hpc, scan, provider, model, pos,
                   consumed, content, body, response>>
    /\ UNCHANGED <<tags_models, other_vars>>

\* OpenAIProvider::chat: the test of the inner while loop and one pass of
\* it; on the sentinel, stream_ended = true and both loops are left.
OpenAILine ==
    /\ Polled /\ dpc = "lines" /\ api_type = "Openai"
    /\ IF find(buffer) = 0
       THEN dpc' = "next" /\ UNCHANGED <<buffer, items, stream_ended>>
       ELSE \E p \in {OpenAIPass(buffer, model)} :
                /\ buffer' = p.buffer
                /\ items' = items \o p.out
                /\ stream_ended' = (p.ctl = "break")
                /\ dpc' = CASE p.ctl = "return" -> "end"
                            [] p.ctl = "break" -> "final"
                            [] OTHER -> "lines"
    /\ UNCHANGED <<providers, request, upstream, hpc, scan, provider, model, pos,
                   consumed, content, body, response>>
    /\ UNCHANGED <<tags_models, other_vars>>

\* OpenAIProvider::chat: `yield Ok(final_chunk)` after the loops.
OpenAIFinal ==
    /\ Polled /\ dpc = "final"
    /\ dpc' = "end"
    /\ Yield(final_chunk(model))
    /\ UNCHANGED <<providers, request, upstream, hpc, scan, provider, model, pos,
                   buffer, stream_ended, consumed, content, body, response>>
    /\ UNCHANGED <<tags_models, other_vars>>

-----------------------------------------------------------------------------
(* OllamaProvider::get_models_cached, called by several tasks on one handle. *)
(* The read guard lives in the block of lines 239-244 and is dropped before  *)
(* get_models is awaited; the write guard is taken after the await.          *)

Callers == 1..MaxCallers

\* What the upstream lists at GET /api/tags when a fetch reaches it: one
\* model, two models, or none.
TagLists == {<<Model(<<"llama3">>, <<"llama3">>)>>,
             <<Model(<<"llama3">>, <<"llama3">>), Model(<<"gpt">>, <<"gpt">>)>>,
             <<>>}

\* The handle whose cache is shared: OllamaProvider::new gives it an empty one.
CachedProvider ==
    [name |-> <<"demo">>, api_type |-> "Ollama", models |-> <<>>, tags |-> <<>>]

\* Every outcome of self.get_models().await.unwrap_or_default(): the mapped
\* list of what the upstream lists, or the default (empty) Vec on Err.
FetchOutcomes ==
    {[ok |-> TRUE, models |-> OllamaGetModels([CachedProvider EXCEPT !.tags = t])] :
        t \in TagLists}
        \cup {[ok |-> FALSE, models |-> <<>>]}

\* Calls begun so far.
CallsBegun ==
    Len(returns) + Cardinality({c \in Callers : cpc[c] \notin {"idle", "done"}})

\* A task calls get_models_cached.
CachedCall(c) ==
    /\ cpc[c] \in {"idle", "done"}
    /\ CallsBegun < MaxCalls
    /\ cpc' = [cpc EXCEPT ![c] = "start"]
    /\ UNCHANGED <<cache, rwlock, fetched, returns, fetch_log>>
    /\ UNCHANGED <<request_vars, tasks, build, demo>>

\* let cached = self.models.read().unwrap();
CachedReadLock(c) ==
    /\ cpc[c] = "start"
    /\ rwlock.writer = 0
    /\ rwlock' = [rwlock EXCEPT !.readers = @ \cup {c}]
    /\ cpc' = [cpc EXCEPT ![c] = "read"]
    /\ UNCHANGED <<cache, fetched, returns, fetch_log>>
    /\ UNCHANGED <<request_vars, tasks, build, demo>>

\* The block returning the cached list whatever it holds: no fetch.
CachedRead_NoRetry(c) ==
    /\ cpc[c] = "read"
    /\ rwlock' = [rwlock EXCEPT !.readers = @ \ {c}]
    /\ returns' = Append(returns, [caller |-> c, models |-> cache, miss |-> FALSE])
    /\ cpc' = [cpc EXCEPT ![c] = "done"]
    /\ UNCHANGED <<cache, fetched, fetch_log>>
    /\ UNCHANGED <<request_vars, tasks, build, demo>>

\* if !cached.is_empty() { return cached.clone(); } and the end of the block,
\* where the read guard is dropped.
CachedRead(c) ==
    /\ cpc[c] = "read"
    /\ rwlock' = [rwlock EXCEPT !.readers = @ \ {c}]
    /\ IF cache # <<>>
       THEN /\ returns' = Append(returns, [caller |-> c, models |-> cache, miss |-> FALSE])
            /\ cpc' = [cpc EXCEPT ![c] = "done"]
       ELSE /\ cpc' = [cpc EXCEPT ![c] = "fetch"]
            /\ UNCHANGED returns
    /\ UNCHANGED <<cache, fetched, fetch_log>>
    /\ UNCHANGED <<request_vars, tasks, build, demo>>

\* let models = self.get_models().await.unwrap_or_default();
CachedFetch(c) ==
    /\ cpc[c] = "fetch"
    /\ \E o \in FetchOutcomes :
        /\ fetched' = [fetched EXCEPT ![c] = o.models]
        /\ fetch_log' = Append(fetch_log, [caller |-> c, ok |-> o.ok, models |-> o.models])
    /\ cpc' = [cpc EXCEPT ![c] = "write"]
    /\ UNCHANGED <<cache, rwlock, returns>>
    /\ UNCHANGED <<request_vars, tasks, build, demo>>

\* let mut cache = self.models.write().unwrap();
CachedWriteLock(c) ==
    /\ cpc[c] = "write"
    /\ rwlock.writer = 0 /\ rwlock.readers = {}
    /\ rwlock' = [rwlock EXCEPT !.writer = c]
    /\ cpc' = [cpc EXCEPT ![c] = "store"]
    /\ UNCHANGED <<cache, fetched, returns, fetch_log>>
    /\ UNCHANGED <<request_vars, tasks, build, demo>>

\* *cache = models.clone(); models  (the write guard is dropped on return)
CachedStore(c) ==
    /\ cpc[c] = "store"
    /\ cache' = fetched[c]
    /\ returns' = Append(returns, [caller |-> c, models |-> fetched[c], miss |-> TRUE])
    /\ rwlock' = [rwlock EXCEPT !.writer = 0]
    /\ cpc' = [cpc EXCEPT ![c] = "done"]
    /\ UNCHANGED <<fetched, fetch_log>>
    /\ UNCHANGED <<request_vars, tasks, build, demo>>

\* Any step of any caller of get_models_cached.
NextCache ==
    \E c \in Callers :
        \/ CachedCall(c)
        \/ CachedReadLock(c)
        \/ CachedRead(c)
        \/ CachedFetch(c)
        \/ CachedWriteLock(c)
        \/ CachedStore(c)

-----------------------------------------------------------------------------
(* Requests in flight at once: each runs unmap_model in a task of its own   *)
(* over the shared AppState (Arc<AppState>, never written after main built  *)
(* it).                                                                     *)

Requests == 1..MaxRequests

\* A panic unwinds the task it happens in; the runtime catches it there.
panic_Abort(ts, t) == [u \in DOMAIN ts |-> [ts[u] EXCEPT !.pc = "panic"]]

\* panic!(..) at the end of unmap_model, in task t.
panic(ts, t) == [ts EXCEPT ![t].pc = "panic"]

\* unmap_model in task t: one pass of its loop, or the panic! after it.
TaskUnmap(t) ==
    /\ tasks[t].pc = "unmap"
    /\ IF tasks[t].scan > Len(providers)
       THEN tasks' = panic(tasks, t)
       ELSE LET ms == get_models(providers[tasks[t].scan])
                j == FindModel(ms, tasks[t].model_name, 1)
            IN  IF j # 0
                THEN tasks' = [tasks EXCEPT ![t].pc = "chat",
                                            ![t].provider = tasks[t].scan,
                                            ![t].model = ms[j].name]
                ELSE tasks' = [tasks EXCEPT ![t].scan = @ + 1]
    /\ UNCHANGED <<request_vars, cache_vars, build, demo>>

\* The handler of task t from the return of unmap_model to its response.
TaskRespond(t) ==
    /\ tasks[t].pc = "chat"
    /\ tasks' = [tasks EXCEPT ![t].pc = "done"]
    /\ UNCHANGED <<request_vars, cache_vars, build, demo>>

NextTasks == \E t \in Requests : TaskUnmap(t) \/ TaskRespond(t)

-----------------------------------------------------------------------------
(* build_request_body (ollama_provider.rs) and                              *)
(* OpenAIProvider::build_request_body.  A JSON object is a function from    *)
(* its keys to its values.                                                  *)

\* obj.entry(k).or_insert(v): an existing key keeps its value.
insert_KeepOld(obj, k, v) ==
    [x \in DOMAIN obj \cup {k} |-> IF x \in DOMAIN obj THEN obj[x] ELSE v]

\* serde_json::Map::insert(k, v)
insert(obj, k, v) ==
    [x \in DOMAIN obj \cup {k} |-> IF x = k THEN v ELSE obj[x]]

\* for (k, v) in opts { obj.insert(k, v); }
RECURSIVE InsertAll(_, _, _)
InsertAll(obj, opts, keys) ==
    IF keys = {} THEN obj
    ELSE LET k == CHOOSE x \in keys : TRUE
         IN  InsertAll(insert(obj, k, opts[k]), opts, keys \ {k})

\* messages.iter().map(|m| json!({ "role": m.role, "content": m.content }))
msgs(messages) ==
    [i \in 1..Len(messages) |->
        [role |-> messages[i].role, content |-> messages[i].content]]

\* json!({ "model": model, "messages": msgs, "stream": true })
BaseBody(m, messages) ==
    [model |-> m, messages |-> msgs(messages), stream |-> TRUE]

\* fn build_request_body(model, messages, option) -> Value
build_request_body(m, messages, option) ==
    IF option.kind = "object"
    THEN InsertAll(BaseBody(m, messages), option.opts, DOMAIN option.opts)
    ELSE BaseBody(m, messages)

\* OpenAIProvider::build_request_body(&self, model, messages, option) -> Value
OpenAIBuildRequestBody(m, messages, option) ==
    IF option.kind = "object"
    THEN InsertAll(BaseBody(m, messages), option.opts, DOMAIN option.opts)
    ELSE BaseBody(m, messages)

\* OllamaProvider::chat: let body = build_request_body(model, messages, option);
OllamaBuild ==
    /\ build.ollama = <<>>
    /\ build' = [build EXCEPT
                    !.ollama = <<build_request_body(build.model, build.messages,
                                                    build.option)>>]
    /\ UNCHANGED <<request_vars, cache_vars, tasks, demo>>

\* OpenAIProvider::build_request:
\* let body = self.build_request_body(model, messages, option);
OpenAIBuild ==
    /\ build.openai = <<>>
    /\ build' = [build EXCEPT
                    !.openai = <<OpenAIBuildRequestBody(build.model, build.messages,
                                                        build.option)>>]
    /\ UNCHANGED <<request_vars, cache_vars, tasks, demo>>

NextBuild == OllamaBuild \/ OpenAIBuild

-----------------------------------------------------------------------------
(* handle_tags *)

\* handle_tags putting each provider's models in front of the list.
handle_tags_Prepend ==
    /\ hpc = "tags"
    /\ IF scan > Len(providers)
       THEN /\ hpc' = "done"
            /\ response' = OkResponse(<<>>, <<>>)
            /\ UNCHANGED <<scan, tags_models>>
       ELSE /\ tags_models' = get_models(providers[scan]) \o tags_models
            /\ scan' = scan + 1
            /\ UNCHANGED <<hpc, response>>
    /\ UNCHANGED <<providers, request, upstream, provider, model, dpc, pos, buffer,
                   stream_ended, items, consumed, content, body>>
    /\ UNCHANGED other_vars

\* handle_tags, one pass of `for provider in &state.providers` (it awaits
\* get_models and appends the result), or the response after the loop.
handle_tags ==
    /\ hpc = "tags"
    /\ IF scan > Len(providers)
       THEN /\ hpc' = "done"
            /\ response' = OkResponse(<<>>, <<>>)
            /\ UNCHANGED <<scan, tags_models>>
       ELSE /\ tags_models' = tags_models \o get_models(providers[scan])
            /\ scan' = scan + 1
            /\ UNCHANGED <<hpc, response>>
    /\ UNCHANGED <<providers, request, upstream, provider, model, dpc, pos, buffer,
                   stream_ended, items, consumed, content, body>>
    /\ UNCHANGED other_vars

-----------------------------------------------------------------------------
(* Inputs *)

SeqsUpTo(S, n) == UNION {[1..k -> S] : k \in 0..n}

\* The lines, each followed by LF, the last one only when `terminated`.
RECURSIVE JoinLines(_, _)
JoinLines(ls, terminated) ==
    IF ls = <<>> THEN <<>>
    ELSE IF Len(ls) = 1 THEN Head(ls) \o (IF terminated THEN <<LF>> ELSE <<>>)
    ELSE Head(ls) \o <<LF>> \o JoinLines(Tail(ls), terminated)

Bodies(lines) ==
    {JoinLines(ls, t) : ls \in SeqsUpTo(lines, MaxLines), t \in BOOLEAN}

\* {"message":{"content":c},"done":d}
OllamaMessageLine(c, d) == <<"{", "M">> \o c \o <<"m", IF d THEN "T" ELSE "F", "}">>

OllamaLines ==
    {OllamaMessageLine(<<"hel">>, FALSE),
     OllamaMessageLine(<<"lo">>, TRUE),
     OllamaMessageLine(<<"C3", "A9">>, FALSE),
     <<"{", "T", "}">>,          \* {"done":true}
     <<"x">>,                    \* not JSON
     <<SP>>}                     \* a blank line

\* data: {"choices":[{"delta":{"content":c}}]}
OpenAIContentLine(c) == <<"d", SP, "{c", "{d", "k">> \o c \o <<"q", "}}", "]}">>

OpenAILines ==
    {OpenAIContentLine(<<"Hi">>),
     OpenAIContentLine(<<"C3", "A9">>),
     <<"d", SP, "{c", "{d", "}}", "]}">>,   \* a delta without content
     <<"d", SP, "DONE">>,                   \* data: [DONE]
     <<"ev">>,                              \* not a data line
     <<"d", SP, "x">>,                      \* a payload that is not JSON
     <<>>}                                  \* the empty line between events

\* One provider of a configuration file (ProviderInfo), with what its
\* upstream lists at /api/tags: an Ollama upstream lists each model with
\* equal name and model.
ProviderInfo(n, t, ms, tags) ==
    [name |-> n, api_type |-> t, models |-> ms,
     tags |-> [j \in 1..Len(tags) |-> Model(tags[j], tags[j])]]

DemoConfig ==
    <<ProviderInfo(<<"demo">>, "Ollama", <<>>, <<<<"llama3">>>>),
      ProviderInfo(<<"oa">>, "Openai", <<<<"gpt">>>>, <<>>)>>

ProviderInfos ==
    {ProviderInfo(<<"demo">>, "Ollama", <<>>, <<<<"llama3">>>>),
     ProviderInfo(<<"demo">>, "Ollama", <<>>, <<<<"]", "-", "llama3">>, <<"llama3">>>>),
     ProviderInfo(<<"demo", "]", "-">>, "Openai", <<<<"llama3">>>>, <<>>),
     ProviderInfo(<<"oa">>, "Openai", <<<<"gpt">>, <<"llama3">>, <<"gpt">>>>, <<>>),
     ProviderInfo(<<"oa">>, "Openai", <<>>, <<>>),
     ProviderInfo(<<"demo">>, "Openai", <<<<"llama3">>>>, <<>>)}

Configs == SeqsUpTo(ProviderInfos, MaxProviders)

ModelNames == {<<"llama3">>, <<"]", "-", "llama3">>, <<"gpt">>}

RequestNames ==
    {map_model_name(pi.name, m) : pi \in ProviderInfos, m \in ModelNames}
        \cup {map_model_name(<<"unknown">>, <<"x">>)}

Request(e, m, s) == [endpoint |-> e, model |-> m, stream |-> s]

Upstream(s, b) == [send |-> s, body |-> b]

\* Scenario A's upstream: "hel"/done=false then "lo"/done=true.
ScenarioA ==
    JoinLines(<<OllamaMessageLine(<<"hel">>, FALSE), OllamaMessageLine(<<"lo">>, TRUE)>>,
              TRUE)

StartOfRequest ==
    /\ hpc = "unmap" /\ scan = 1 /\ provider = 0 /\ model = <<>>
    /\ dpc = "none" /\ pos = 0 /\ buffer = <<>> /\ stream_ended = FALSE
    /\ items = <<>> /\ consumed = 0 /\ content = <<>> /\ body = <<>>
    /\ response = NoResponse

\* The demo registry, every upstream body.
InitStreams ==
    /\ providers = load_providers(DemoConfig)
    /\ \/ /\ request \in {Request("chat", map_model_name(<<"demo">>, <<"llama3">>), s) :
                            s \in {"true", "false"}}
          /\ upstream \in {Upstream("ok", b) : b \in Bodies(OllamaLines)}
       \/ /\ request \in {Request("chat", map_model_name(<<"oa">>, <<"gpt">>), s) :
                            s \in {"true", "false"}}
          /\ upstream \in {Upstream("ok", b) : b \in Bodies(OpenAILines)}

\* Every registry and request, one upstream body and every send outcome.
InitRegistries ==
    /\ providers \in {load_providers(c) : c \in Configs}
    /\ request \in {Request("chat", m, s) :
                        m \in RequestNames, s \in {"true", "false", "absent"}}
                   \cup {Request("generate", m, "absent") : m \in RequestNames}
    /\ upstream \in {Upstream(s, ScenarioA) :
                        s \in {"ok", "request", "status", "no_client"}}

\* GET /api/tags against every registry.
InitTags ==
    /\ providers \in {load_providers(c) : c \in Configs}
    /\ request = Request("tags", <<>>, "absent")
    /\ upstream = Upstream("ok", ScenarioA)
    /\ hpc = "tags" /\ scan = 1 /\ provider = 0 /\ model = <<>>
    /\ dpc = "none" /\ pos = 0 /\ buffer = <<>> /\ stream_ended = FALSE
    /\ items = <<>> /\ consumed = 0 /\ content = <<>> /\ body = <<>>
    /\ response = NoResponse

\* No task has called get_models_cached; the cache is as OllamaProvider::new
\* leaves it.
CacheIdle ==
    /\ cache = <<>>
    /\ rwlock = [readers |-> {}, writer |-> 0]
    /\ cpc = [c \in Callers |-> "idle"]
    /\ fetched = [c \in Callers |-> <<>>]
    /\ returns = <<>>
    /\ fetch_log = <<>>

TasksIdle == tasks = <<>>

BuildIdle == build = <<>>

DemoIdle == demo = <<>>

Init ==
    /\ \/ StartOfRequest /\ (InitStreams \/ InitRegistries)
       \/ InitTags
    /\ tags_models = <<>>
    /\ CacheIdle /\ DemoIdle /\ TasksIdle /\ BuildIdle

Next ==
    \/ unmap_model
    \/ handle_generate
    \/ handle_chat
    \/ handle_tags
    \/ collect_item
    \/ collect_end
    \/ relay_item
    \/ relay_end
    \/ OllamaSend
    \/ OllamaNext
    \/ OllamaReadError
    \/ OllamaEof
    \/ OllamaLine
    \/ OpenAISend
    \/ OpenAINext
    \/ OpenAIReadError
    \/ OpenAIEof
    \/ OpenAILine
    \/ OpenAIFinal

Spec == Init /\ [][Next]_vars

\* A single request that stays where it starts.
RequestIdle ==
    /\ StartOfRequest
    /\ providers = load_providers(DemoConfig)
    /\ request = Request("chat", map_model_name(<<"demo">>, <<"llama3">>), "absent")
    /\ upstream = Upstream("ok", ScenarioA)
    /\ tags_models = <<>>

\* Tasks calling get_models_cached on a provider whose cache is empty.
InitCache == RequestIdle /\ CacheIdle /\ DemoIdle /\ TasksIdle /\ BuildIdle

SpecCache == InitCache /\ [][NextCache]_vars

\* The model names the requests in flight carry.
TaskNames ==
    {map_model_name(<<"demo">>, <<"llama3">>), map_model_name(<<"oa">>, <<"gpt">>),
     map_model_name(<<"oa">>, <<"llama3">>), map_model_name(<<"unknown">>, <<"x">>)}

\* A request at the call of unmap_model.
Task(m) == [model_name |-> m, pc |-> "unmap", scan |-> 1, provider |-> 0, model |-> <<>>]

TaskRegistries ==
    {load_providers(DemoConfig),
     load_providers(<<ProviderInfo(<<"oa">>, "Openai", <<<<"gpt">>, <<"llama3">>>>, <<>>),
                      ProviderInfo(<<"demo">>, "Ollama", <<>>, <<<<"llama3">>>>)>>),
     load_providers(<<ProviderInfo(<<"oa">>, "Openai", <<<<"llama3">>>>, <<>>),
                      ProviderInfo(<<"oa">>, "Openai", <<<<"gpt">>, <<"llama3">>>>, <<>>)>>)}

\* Requests in flight at once over one registry.
InitTasks ==
    /\ StartOfRequest
    /\ providers \in TaskRegistries
    /\ request = Request("chat", map_model_name(<<"demo">>, <<"llama3">>), "absent")
    /\ upstream = Upstream("ok", ScenarioA)
    /\ tags_models = <<>>
    /\ tasks \in [Requests -> {Task(m) : m \in TaskNames}]
    /\ CacheIdle /\ DemoIdle /\ BuildIdle

SpecTasks == InitTasks /\ [][NextTasks]_vars

\* struct Message
Message(r, c) == [role |-> r, content |-> c]

Messages == {Message("user", "hi"), Message("assistant", "yo")}

\* Option<Value>: None, Some of a value that is not an object, Some(Object).
NoOption == [kind |-> "none", opts |-> <<>>]
ValueOption == [kind |-> "value", opts |-> <<>>]
ObjectOption(opts) == [kind |-> "object", opts |-> opts]

\* The value an options object may carry under each key.
OptionValue ==
    [model |-> <<"other">>, messages |-> <<>>, stream |-> FALSE, temperature |-> "0.5"]

Options ==
    {NoOption, ValueOption}
        \cup {ObjectOption([k \in ks |-> OptionValue[k]]) : ks \in SUBSET DOMAIN OptionValue}

\* Every call of build_request_body.
InitBuild ==
    /\ RequestIdle /\ CacheIdle /\ DemoIdle /\ TasksIdle
    /\ build \in {[model |-> m, messages |-> ms, option |-> o,
                   ollama |-> <<>>, openai |-> <<>>] :
                    m \in {<<"llama3">>, <<"gpt">>},
                    ms \in SeqsUpTo(Messages, MaxMessages),
                    o \in Options}

SpecBuild == InitBuild /\ [][NextBuild]_vars

\* One streaming /api/chat request to either provider of the demo registry,
\* short bodies.
InitPull ==
    /\ StartOfRequest
    /\ providers = load_providers(DemoConfig)
    /\ \/ /\ request = Request("chat", map_model_name(<<"demo">>, <<"llama3">>), "true")
          /\ upstream \in {Upstream("ok", JoinLines(ls, t)) :
                              ls \in SeqsUpTo(OllamaLines, MaxFrames), t \in BOOLEAN}
       \/ /\ request = Request("chat", map_model_name(<<"oa">>, <<"gpt">>), "absent")
          /\ upstream \in {Upstream("ok", JoinLines(ls, t)) :
                              ls \in SeqsUpTo(OpenAILines, MaxFrames), t \in BOOLEAN}
    /\ tags_models = <<>>
    /\ CacheIdle /\ DemoIdle /\ TasksIdle /\ BuildIdle

NextPull ==
    \/ unmap_model
    \/ handle_chat
    \/ relay_item
    \/ relay_end
    \/ drop_stream
    \/ OllamaSend
    \/ OllamaNext
    \/ OllamaReadError
    \/ OllamaEof
    \/ OllamaLine
    \/ OpenAISend
    \/ OpenAINext
    \/ OpenAIReadError
    \/ OpenAIEof
    \/ OpenAILine
    \/ OpenAIFinal

SpecPull == InitPull /\ [][NextPull]_vars

\* Upstream bodies of the OllamaStyle provider: Scenario A; a line that is
\* not JSON after a chunk; a blank line, a message-less line and a last line
\* without its newline.
LiveOllamaBodies ==
    {ScenarioA,
     JoinLines(<<OllamaMessageLine(<<"hel">>, FALSE), <<"x">>>>, TRUE),
     JoinLines(<<<<SP>>, <<"{", "T", "}">>, OllamaMessageLine(<<"C3", "A9">>, FALSE)>>,
               FALSE)}

\* Upstream bodies of the OpenAIStyle provider: one frame, no sentinel; a
\* payload without choices, the sentinel and a line after it; an event line
\* and a last line without its newline; a payload that is not JSON.
LiveOpenAIBodies ==
    {JoinLines(<<OpenAIContentLine(<<"Hi">>)>>, TRUE),
     JoinLines(<<<<"d", SP, "{c", "]}">>, <<"d", SP, "DONE">>, <<"ev">>>>, TRUE),
     JoinLines(<<<<"ev">>, <<"d", SP, "{c", "{d", "}}", "]}">>>>, FALSE),
     JoinLines(<<<<"d", SP, "x">>>>, TRUE)}

\* One /api/chat request, streaming or not, to either provider of the demo
\* registry; the upstream answers 2xx with one of these bodies or with an
\* error status.
InitLive ==
    /\ StartOfRequest
    /\ providers = load_providers(DemoConfig)
    /\ \/ /\ request \in {Request("chat", map_model_name(<<"demo">>, <<"llama3">>), st) :
                            st \in {"true", "false"}}
          /\ upstream \in {Upstream(sd, b) :
                              sd \in {"ok", "status"}, b \in LiveOllamaBodies}
       \/ /\ request \in {Request("chat", map_model_name(<<"oa">>, <<"gpt">>), st) :
                            st \in {"true", "false"}}
          /\ upstream \in {Upstream(sd, b) :
                              sd \in {"ok", "status"}, b \in LiveOpenAIBodies}
    /\ tags_models = <<>>
    /\ CacheIdle /\ DemoIdle /\ TasksIdle /\ BuildIdle

NextLive ==
    \/ unmap_model
    \/ handle_chat
    \/ collect_item
    \/ collect_end
    \/ relay_item
    \/ relay_end
    \/ OllamaSend
    \/ OllamaNext
    \/ OllamaReadError
    \/ OllamaEof
    \/ OllamaLine
    \/ OpenAISend
    \/ OpenAINext
    \/ OpenAIReadError
    \/ OpenAIEof
    \/ OpenAILine
    \/ OpenAIFinal

\* The runtime keeps polling the task of the request, the consumer keeps
\* pulling, and the byte stream keeps delivering: a fragment, a read error
\* or its end.
SpecLive == InitLive /\ [][NextLive]_vars /\ WF_vars(NextLive)

-----------------------------------------------------------------------------
(* The demo servers: demo.rs at the top of the repository and src/demo.rs. *)
(* Each answers /api/chat from a fixed list of chunks.  A body line is the *)
(* ChatResponse it serialises, kept as its content and its done flag.      *)

DemoServers == {"demo.rs", "src/demo.rs"}

\* let chunks: Vec<String> = vec![..]
demo_chunks(last_msg) ==
    <<<<"Hello">>, <<", this">>, <<" is">>, <<" a">>, <<" simulated">>, <<" stream">>,
      <<" reply">>, <<" to">>, <<" '", last_msg, "'">>, <<".">>>>

\* let is_last = i == 9 (demo.rs), i == 8 (src/demo.rs); i counts from 0.
is_last(server, i) == IF server = "demo.rs" THEN i = 9 ELSE i = 8

\* The handler `chat` of either demo server up to the streaming response:
\* 400 for a model that is not listed, the single answer when stream is
\* false, else status 200 and the stream of lines.
demo_chat ==
    /\ demo # <<>> /\ demo.pc = "chat"
    /\ demo' =
         IF demo.model # "llama3"
         THEN [demo EXCEPT !.pc = "done", !.status = 400]
         ELSE IF demo.stream = "false"
         THEN [demo EXCEPT !.pc = "done", !.status = 200,
                           !.lines = <<[content |-> <<"Replied to: ", demo.last_msg>>,
                                        done |-> TRUE]>>]
         ELSE [demo EXCEPT !.pc = "stream", !.status = 200]
    /\ UNCHANGED <<request_vars, cache_vars, tasks, build>>

\* One item of stream::iter(chunks.into_iter().enumerate().map(..)): the
\* line of chunk i.
demo_line ==
    /\ demo # <<>> /\ demo.pc = "stream"
    /\ demo.i < Len(demo_chunks(demo.last_msg))
    /\ demo' = [demo EXCEPT
                  !.lines = Append(@, [content |-> demo_chunks(demo.last_msg)[demo.i + 1],
                                       done |-> is_last(demo.server, demo.i)]),
                  !.i = @ + 1]
    /\ UNCHANGED <<request_vars, cache_vars, tasks, build>>

\* The iterator is exhausted: the body ends.
demo_end ==
    /\ demo # <<>> /\ demo.pc = "stream"
    /\ demo.i = Len(demo_chunks(demo.last_msg))
    /\ demo' = [demo EXCEPT !.pc = "done"]
    /\ UNCHANGED <<request_vars, cache_vars, tasks, build>>

NextDemo == demo_chat \/ demo_line \/ demo_end

\* Every /api/chat request to either demo server.
InitDemo ==
    /\ RequestIdle /\ CacheIdle /\ TasksIdle /\ BuildIdle
    /\ demo \in {[server |-> sv, model |-> m, last_msg |-> lm, stream |-> st,
                   pc |-> "chat", i |-> 0, status |-> 0, lines |-> <<>>] :
                    sv \in DemoServers, m \in {"llama3", "gpt"},
                    lm \in {"", "hi", "yo"}, st \in {"true", "false", "absent"}}

SpecDemo == InitDemo /\ [][NextDemo]_vars

\* data: {"choices":[ cs ]}
SsePayload(cs) == <<"d", SP, "{c">> \o cs \o <<"]}">>

\* {"delta":{"content":c}}
ContentChoice(c) == <<"{d", "k">> \o c \o <<"q", "}}">>

\* The lines of an SSE body, by shape.
SseLines ==
    {SsePayload(ContentChoice(<<"Hi">>)),
     SsePayload(ContentChoice(<<>>)),                  \* "content":""
     SsePayload(<<>>),                                 \* "choices":[]
     SsePayload(<<"{}">>),                             \* a choice without delta
     SsePayload(<<"{d", "}}">>),                       \* a delta without content
     SsePayload(<<"{}", ",">> \o ContentChoice(<<"lo">>)),
     SsePayload(ContentChoice(<<"Hi">>) \o <<",">> \o ContentChoice(<<"lo">>)),
     <<"d", SP, "DONE">>,                              \* data: [DONE]
     <<"d", "DONE">>,                                  \* data:[DONE]
     <<"d", "{c">> \o ContentChoice(<<"Hi">>) \o <<"]}">>,   \* data:{...}
     <<"d", HT, "{c">> \o ContentChoice(<<"Hi">>) \o <<"]}">>,
     <<"ev">>,                                         \* event:ping
     <<":", SP, "x">>,                                 \* : x
     <<"d", SP, "x">>}                                 \* data: x

\* One non-streaming /api/chat request answered by the OpenAIStyle provider
\* of the demo registry, every SSE body.
InitSse ==
    /\ StartOfRequest
    /\ providers = load_providers(DemoConfig)
    /\ request = Request("chat", map_model_name(<<"oa">>, <<"gpt">>), "false")
    /\ upstream \in {Upstream("ok", JoinLines(ls, t)) :
                        ls \in SeqsUpTo(SseLines, MaxFrames), t \in BOOLEAN}
    /\ tags_models = <<>>
    /\ CacheIdle /\ DemoIdle /\ TasksIdle /\ BuildIdle

NextSse ==
    \/ unmap_model
    \/ handle_chat
    \/ collect_item
    \/ collect_end
    \/ OpenAISend
    \/ OpenAINext
    \/ OpenAIReadError
    \/ OpenAIEof
    \/ OpenAILine
    \/ OpenAIFinal

SpecSse == InitSse /\ [][NextSse]_vars

-----------------------------------------------------------------------------
(* The decoders on an unfragmented response: the whole body arrives as one  *)
(* fragment, then the byte stream ends.                                     *)

\* OllamaProvider::chat's inner while loop run until it is left: what it
\* yields.
RECURSIVE OllamaLoop(_, _)
OllamaLoop(buf, model_name) ==
    IF find(buf) = 0 THEN <<>>
    ELSE LET p == OllamaPass(buf, model_name)
         IN  p.out \o (IF p.ctl = "loop" THEN OllamaLoop(p.buffer, model_name) ELSE <<>>)

OllamaWhole(bytes, model_name) ==
    IF bytes = <<>> THEN <<>>
    ELSE IF ~from_utf8_ok(bytes) THEN <<ProviderError("utf8")>>
    ELSE OllamaLoop(bytes, model_name)

\* OpenAIProvider::chat's inner while loop run until it is left: what it
\* yields and how it is left.
RECURSIVE OpenAILoop(_, _)
OpenAILoop(buf, model_name) ==
    IF find(buf) = 0 THEN [out |-> <<>>, ctl |-> "loop"]
    ELSE LET p == OpenAIPass(buf, model_name)
             more == OpenAILoop(p.buffer, model_name)
         IN  IF p.ctl = "loop"
             THEN [out |-> p.out \o more.out, ctl |-> more.ctl]
             ELSE [out |-> p.out, ctl |-> p.ctl]

OpenAIWhole(bytes, model_name) ==
    IF bytes = <<>> THEN <<final_chunk(model_name)>>
    ELSE IF ~from_utf8_ok(bytes) THEN <<ProviderError("utf8")>>
    ELSE LET r == OpenAILoop(bytes, model_name)
         IN  r.out \o (IF r.ctl = "return" THEN <<>> ELSE <<final_chunk(model_name)>>)

-----------------------------------------------------------------------------
(* Vocabulary of the properties *)

\* The LF-terminated lines of a text, without their LF.
RECURSIVE Lines(_)
Lines(s) ==
    IF find(s) = 0 THEN <<>> ELSE <<SubSeq(s, 1, find(s) - 1)>> \o Lines(Drain(s))

Terminated(s) == s = <<>> \/ s[Len(s)] = LF

\* A valid newline-delimited response: UTF-8 text, every line ended by LF,
\* every line blank or one JSON object of the OllamaStyle shape.
ValidOllamaResponse(bytes) ==
    /\ from_utf8_ok(bytes)
    /\ Terminated(bytes)
    /\ \A i \in 1..Len(Lines(bytes)) :
        LET line == trim(Lines(bytes)[i])
        IN  line = <<>> \/ from_str_OllamaChatChunk(line).ok

\* A valid SSE response: UTF-8 text, every line ended by LF, every `data: `
\* line the sentinel or a JSON payload of the OpenAIStyle shape.
ValidSseResponse(bytes) ==
    /\ from_utf8_ok(bytes)
    /\ Terminated(bytes)
    /\ \A i \in 1..Len(Lines(bytes)) :
        LET line == trim(Lines(bytes)[i])
            data == strip_prefix(line, <<"d", SP>>)
        IN  data.some => (IsDoneLine(line) \/ from_str_OpenaiChatChunk(data.rest).ok)

HasDoneLine(bytes) ==
    \E i \in 1..Len(Lines(bytes)) : IsDoneLine(trim(Lines(bytes)[i]))

Resolved == provider # 0

IsOllama == Resolved /\ api_type = "Ollama"
IsOpenAI == Resolved /\ api_type = "Openai"

StreamOver == dpc = "end"

Yielded(err) == \E i \in 1..Len(items) : items[i] = ProviderError(err)

\* The upstream answered 2xx and the transport delivered its whole body.
Delivered == upstream.send = "ok" /\ ~Yielded("read")

DoneChunks == {i \in 1..Len(items) : items[i].ok /\ items[i].done}

-----------------------------------------------------------------------------
(* Properties *)

\* C1. OllamaStyle decoder, fragmentation invariance: for a valid
\* newline-delimited response that the transport delivers whole, cut into
\* fragments at any offsets (inside a line, inside a JSON object, inside a
\* multi-byte character), the stream yields the items it yields when the
\* response arrives as one fragment.
C1_OllamaFragmentationInvariance ==
    (IsOllama /\ StreamOver /\ Delivered /\ ValidOllamaResponse(upstream.body))
        => items = OllamaWhole(upstream.body, model)

\* C2. OpenAIStyle decoder, fragmentation invariance: for a valid SSE
\* response delivered whole, cut into fragments at any offsets, the stream
\* yields the items of the unfragmented response, and when the response has
\* a `data: [DONE]` line exactly one chunk with done=true is yielded.
C2_OpenAIFragmentationInvariance ==
    (IsOpenAI /\ StreamOver /\ Delivered /\ ValidSseResponse(upstream.body))
        => /\ items = OpenAIWhole(upstream.body, model)
           /\ HasDoneLine(upstream.body) => Cardinality(DoneChunks) = 1

\* The content of every message line of a response up to and including the
\* first message line with done=true, concatenated in order.
RECURSIVE AnswerOfLines(_)
AnswerOfLines(ls) ==
    IF ls = <<>> THEN <<>>
    ELSE LET line == trim(Head(ls))
             chunk == from_str_OllamaChatChunk(line)
         IN  IF line = <<>> \/ ~chunk.ok \/ ~chunk.message.some
             THEN AnswerOfLines(Tail(ls))
             ELSE chunk.message.content
                    \o (IF chunk.done THEN <<>> ELSE AnswerOfLines(Tail(ls)))

HasDoneMessageLine(bytes) ==
    \E i \in 1..Len(Lines(bytes)) :
        LET chunk == from_str_OllamaChatChunk(trim(Lines(bytes)[i]))
        IN  chunk.ok /\ chunk.message.some /\ chunk.done

NonStreamingChat == request.endpoint = "chat" /\ ~stream_mode

\* C3. Non-streaming chat over an OllamaStyle provider returns the full
\* answer: the 200 response to POST /api/chat with stream=false carries the
\* content of every upstream message line up to and including the done=true
\* line, concatenated in order, and done=true.
C3_NonStreamingFullAnswer ==
    (NonStreamingChat /\ IsOllama /\ hpc = "done" /\ response.status = 200
        /\ ValidOllamaResponse(upstream.body) /\ HasDoneMessageLine(upstream.body))
        => /\ response.content = AnswerOfLines(Lines(upstream.body))
           /\ response.done

\* The requested name is the namespaced name of no descriptor of any
\* configured provider.
NoMatch ==
    \A i \in 1..Len(providers) :
        \A j \in 1..Len(get_models(providers[i])) :
            get_models(providers[i])[j].model # request.model

\* C4. Model-not-found is a request-scoped error: a request whose model
\* matches no descriptor never reaches a panic, and the handler answers it
\* with HTTP 400.
C4_ModelNotFoundIs400 ==
    NoMatch => /\ hpc # "panic"
               /\ hpc = "done" => response.status = 400

\* A stream that ends with an error item, or with a done=true chunk that is
\* its only done=true chunk.
WellFormed(s) ==
    /\ s # <<>>
    /\ \/ ~s[Len(s)].ok
       \/ {i \in 1..Len(s) : s[i].ok /\ s[i].done} = {Len(s)}

\* C5. Every chunk stream that runs to completion is well formed, for both
\* providers and every upstream body.
C5_CompletedStreamWellFormed == StreamOver => WellFormed(items)

\* C6. No item follows a terminal chunk: a chunk with done=true is the last
\* item the stream has yielded, in every state (items only ever grows at its
\* end, so nothing is yielded once such a chunk is).
C6_NothingAfterTerminalChunk == DoneChunks \subseteq {Len(items)}

\* C6 happens: an OllamaStyle stream ended on a done=true chunk while a
\* complete line was still in its buffer, and its consumer finished.
C6_Witness ==
    /\ IsOllama /\ StreamOver /\ hpc = "done"
    /\ DoneChunks = {Len(items)}
    /\ find(buffer) # 0

\* The contents of the chunks with done=false, concatenated in order.
RECURSIVE NonTerminalText(_)
NonTerminalText(s) ==
    IF s = <<>> THEN <<>>
    ELSE (IF Head(s).done THEN <<>> ELSE Head(s).content) \o NonTerminalText(Tail(s))

Collecting == request.endpoint = "generate" \/ ~stream_mode

ErrorFree(s) == \A i \in 1..Len(s) : s[i].ok

IsContentFrame(line) ==
    LET data == strip_prefix(trim(line), <<"d", SP>>)
        chunk == from_str_OpenaiChatChunk(data.rest)
    IN  /\ data.some /\ chunk.ok /\ chunk.choices # <<>>
        /\ chunk.choices[1].delta /\ chunk.choices[1].content.some

FrameContent(line) ==
    from_str_OpenaiChatChunk(strip_prefix(trim(line), <<"d", SP>>).rest)
        .choices[1].content.content

NonBlank(ls) == SelectSeq(ls, LAMBDA l : trim(l) # <<>>)

\* Content frames (with or without empty lines between them) followed by
\* the sentinel line.
FramesThenDone(bytes) ==
    LET ls == NonBlank(Lines(bytes))
    IN  /\ Terminated(bytes)
        /\ ls # <<>>
        /\ IsDoneLine(trim(ls[Len(ls)]))
        /\ \A i \in 1..(Len(ls) - 1) : IsContentFrame(ls[i])

\* C8. OpenAIStyle canonical stream shape: for content frames c1..cn
\* followed by `data: [DONE]`, the stream is n chunks with done=false and
\* contents c1..cn in order, then one chunk with empty content and done=true.
C8_OpenAICanonicalShape ==
    (IsOpenAI /\ StreamOver /\ Delivered /\ FramesThenDone(upstream.body))
        => LET ls == NonBlank(Lines(upstream.body))
           IN  items = [i \in 1..(Len(ls) - 1) |->
                            StreamChatChunk(model, FrameContent(ls[i]), FALSE)]
                        \o <<StreamChatChunk(model, <<>>, TRUE)>>

StreamingChat == request.endpoint = "chat" /\ stream_mode

\* C9. Streaming chat relay: the complete body of a streaming /api/chat
\* response holds one LF-terminated line per chunk of the provider stream,
\* in order, each the serialization of its chunk, and its last line is the
\* chunk with done=true.
C9_StreamingRelay ==
    (StreamingChat /\ hpc = "done" /\ chat_ok)
        => /\ Terminated(body)
           /\ Lines(body) = [i \in 1..Len(items) |->
                                SubSeq(to_line(items[i]), 1, Len(to_line(items[i])) - 1)]
           /\ items # <<>>
           /\ items[Len(items)].done

DistinctNames ==
    \A i, j \in 1..Len(providers) : i # j => providers[i].name # providers[j].name

\* Resolution of the request's model has returned or panicked, and whenever
\* the request names descriptor d of provider i by map_model_name(P, m), it
\* returned provider i and m.
RoundTrips ==
    hpc # "unmap" =>
        \A i \in 1..Len(providers) :
            LET ms == get_models(providers[i])
            IN  \A j \in 1..Len(ms) :
                    (/\ request.model = ms[j].model
                     /\ ms[j].model = map_model_name(providers[i].name, ms[j].name))
                        => (hpc # "panic" /\ provider = i /\ model = ms[j].name)

\* C10 as claimed. Namespacing round-trips for every registry of providers
\* with pairwise distinct names.
C10_RoundTripDistinctNames == DistinctNames => RoundTrips

\* The name contains "]-".
HasDelimiter(name) ==
    \E k \in 1..(Len(name) - 1) : name[k] = "]" /\ name[k + 1] = "-"

NoDelimiterInNames == \A i \in 1..Len(providers) : ~HasDelimiter(providers[i].name)

\* C10 amended. Namespacing round-trips for every registry of providers
\* whose names are pairwise distinct and do not contain "]-".
C10_RoundTrip == (DistinctNames /\ NoDelimiterInNames) => RoundTrips

\* C10 happens: in a registry of two providers with such names, the request
\* named a model of the second one and resolution returned it.
C10_Witness ==
    /\ DistinctNames /\ NoDelimiterInNames
    /\ Len(providers) = 2 /\ provider = 2 /\ hpc = "chat"
    /\ request.model = map_model_name(providers[2].name, model)

-----------------------------------------------------------------------------
\* Descriptor j of provider i's catalog.
Descriptor(i, j) == get_models(providers[i])[j]

\* The places <<i, j>> of the concatenated catalog.
Places ==
    UNION {{<<i, j>> : j \in 1..Len(get_models(providers[i]))} :
            i \in 1..Len(providers)}

\* C11 as claimed. Namespaced names are unique across the registry whenever
\* provider names are unique: no two descriptors of the concatenated catalog
\* share a namespaced name.
C11_UniqueWhenDistinctNames ==
    DistinctNames =>
        \A p, q \in Places :
            p # q => Descriptor(p[1], p[2]).model # Descriptor(q[1], q[2]).model

\* The registry as load_providers built it, at the start of a request (no
\* handler writes `providers`).
RegistryBuilt == hpc \in {"unmap", "tags"} /\ scan = 1

\* C11 amended. Whenever provider names are pairwise distinct and none
\* contains "]-": map_model_name gives different strings for pairs with
\* different provider names, no two descriptors of different providers share
\* a namespaced name, and two descriptors that load_providers builds for one
\* provider share it exactly when their local names are equal.
C11_UniqueAcrossProviders ==
    (RegistryBuilt /\ DistinctNames /\ NoDelimiterInNames) =>
        /\ \A i, k \in 1..Len(providers) :
            i # k => \A m1, m2 \in ModelNames :
                        map_model_name(providers[i].name, m1)
                            # map_model_name(providers[k].name, m2)
        /\ \A p, q \in Places :
            p[1] # q[1] => Descriptor(p[1], p[2]).model # Descriptor(q[1], q[2]).model
        /\ \A i \in 1..Len(providers) :
            \A j, l \in 1..Len(providers[i].models) :
                (providers[i].models[j].model = providers[i].models[l].model)
                    <=> (providers[i].models[j].name = providers[i].models[l].name)

\* C11 happens: two providers with distinct names free of "]-" offer the same
\* local model name, and one of them declares a local name twice.
C11_Witness ==
    /\ RegistryBuilt /\ DistinctNames /\ NoDelimiterInNames /\ Len(providers) = 2
    /\ \E p, q \in Places :
        /\ p[1] # q[1]
        /\ Descriptor(p[1], p[2]).name = Descriptor(q[1], q[2]).name
    /\ \E p, q \in Places :
        /\ p[1] = q[1] /\ p[2] # q[2]
        /\ Descriptor(p[1], p[2]).model = Descriptor(q[1], q[2]).model

-----------------------------------------------------------------------------
\* Every upstream catalog fetch made so far succeeded and listed a model.
FetchesOk ==
    \A i \in 1..Len(fetch_log) : fetch_log[i].ok /\ fetch_log[i].models # <<>>

\* C12. Catalog cache, single fetch: when several tasks call
\* get_models_cached concurrently on a provider whose cache is still empty
\* and no fetch fails, one upstream catalog fetch is performed in total,
\* under every interleaving of the callers.
C12_SingleFetch ==
    FetchesOk =>
        /\ Len(fetch_log) <= 1
        /\ returns # <<>> => Len(fetch_log) = 1

\* C13. Catalog cache, no torn or divergent read: when no fetch fails, every
\* caller of get_models_cached that found the cache empty returns a
\* populated catalog, and all of them return the identical catalog.
C13_NoTornOrDivergentRead ==
    FetchesOk =>
        \A i, j \in 1..Len(returns) :
            (returns[i].miss /\ returns[j].miss)
                => /\ returns[i].models # <<>>
                   /\ returns[i].models = returns[j].models

\* C14. The catalog cache is populated once and never invalidated: once it
\* holds a non-empty catalog, no step changes its content.
C14_PopulatedOnce == [][cache # <<>> => cache' = cache]_vars

-----------------------------------------------------------------------------
\* unmap_model run alone from provider i on: the first provider whose
\* catalog holds the name, with the local name found there; provider 0 when
\* there is none.
RECURSIVE Resolve(_, _, _)
Resolve(ps, name, i) ==
    IF i > Len(ps) THEN [provider |-> 0, model |-> <<>>]
    ELSE LET j == FindModel(get_models(ps[i]), name, 1)
         IN  IF j # 0
             THEN [provider |-> i, model |-> get_models(ps[i])[j].name]
             ELSE Resolve(ps, name, i + 1)

\* Request t names a model some provider offers.
Valid(t) == Resolve(providers, tasks[t].model_name, 1).provider # 0

\* Every request with a valid name is never stopped, whatever the others do:
\* it can take its next step, and past unmap_model it holds the pair
\* unmap_model gives for its name.
ValidRequestsServed ==
    \A t \in Requests :
        Valid(t) =>
            /\ tasks[t].pc \in {"unmap", "chat", "done"}
            /\ tasks[t].pc = "unmap" => ENABLED TaskUnmap(t)
            /\ tasks[t].pc = "chat" => ENABLED TaskRespond(t)
            /\ tasks[t].pc \in {"chat", "done"}
                => /\ tasks[t].provider = Resolve(providers, tasks[t].model_name, 1).provider
                   /\ tasks[t].model = Resolve(providers, tasks[t].model_name, 1).model

\* C15. Isolation of a failed resolution: while one request resolves a model
\* name that no provider offers, every concurrently running request with a
\* valid name still gets its (provider, local name) pair and goes on to its
\* response, and no request changes the shared registry.
C15_FailedResolutionIsolated ==
    /\ []ValidRequestsServed
    /\ [][providers' = providers]_vars

\* C15 happens: one request has failed its resolution and another, with a
\* valid name, has its pair and has gone on to its response.
C15_Witness ==
    \E t, u \in Requests :
        /\ tasks[t].pc = "panic"
        /\ Valid(u) /\ tasks[u].pc = "done"
        /\ tasks[u].provider = 2

-----------------------------------------------------------------------------
\* The upstream request fails in transport or is answered with a non-2xx
\* status.
SendFails == upstream.send \in {"request", "status"}

\* Nothing has been sent upstream while the stream is at its start, and
\* after a failed send the stream holds the one error item and nothing of the
\* body was read.
OneErrorItem ==
    /\ dpc \in {"none", "send"} => (items = <<>> /\ pos = 0 /\ buffer = <<>>)
    /\ hpc \in {"unmap", "chat"} => dpc = "none"
    /\ (SendFails /\ dpc \notin {"none", "send"})
        => /\ dpc = "end"
           /\ items = <<SendError>>
           /\ pos = 0 /\ buffer = <<>>

\* C16. Upstream failures surface lazily and exactly once, for both
\* providers: chat returns a stream without contacting upstream, the request
\* is sent only when the stream is polled, and when it fails in transport or
\* by status the stream yields exactly one error item, as its first item,
\* and ends with no body bytes decoded.
C16_LazySingleError ==
    /\ []OneErrorItem
    /\ [][(dpc = "send" /\ dpc' # "send") => Polled]_vars

\* C16 happens: an OpenAIStyle upstream answered with a non-2xx status, the
\* stream gave its error item and the handler has answered.
C16_Witness ==
    /\ IsOpenAI /\ upstream.send = "status"
    /\ dpc = "end" /\ items = <<SendError>> /\ consumed = 1
    /\ hpc = "done"

-----------------------------------------------------------------------------
\* The keys of the base body.
BaseKeys == {"model", "messages", "stream"}

\* The base key k is not overridden by the options of the call in `build`.
Kept(k) == build.option.kind # "object" \/ k \notin DOMAIN build.option.opts

\* b is the body claimed for the call in `build`.
BodyAsClaimed(b) ==
    /\ DOMAIN b = BaseKeys \cup (IF build.option.kind = "object"
                                 THEN DOMAIN build.option.opts ELSE {})
    /\ build.option.kind = "object"
        => \A k \in DOMAIN build.option.opts : b[k] = build.option.opts[k]
    /\ Kept("model") => b.model = build.model
    /\ Kept("stream") => b.stream = TRUE
    /\ Kept("messages")
        => /\ Len(b.messages) = Len(build.messages)
           /\ \A i \in 1..Len(build.messages) :
                /\ DOMAIN b.messages[i] = {"role", "content"}
                /\ b.messages[i].role = build.messages[i].role
                /\ b.messages[i].content = build.messages[i].content

\* C17. Request body construction: the body holds every key of an
\* object-valued options with the caller's value, holds model, the messages
\* in their order and stream=true for every base key not in options, is the
\* base body when options is absent or not an object, and the Ollama and
\* OpenAI versions return the same body for the same inputs.
C17_RequestBody ==
    /\ build # <<>> /\ build.ollama # <<>> => BodyAsClaimed(build.ollama[1])
    /\ build # <<>> /\ build.openai # <<>> => BodyAsClaimed(build.openai[1])
    /\ build # <<>> /\ build.ollama # <<>> /\ build.openai # <<>>
        => build.ollama = build.openai

\* C17 happens: both versions have built the body for two different
\* messages and options that override model, add temperature and leave
\* stream alone.
C17_Witness ==
    /\ build.ollama # <<>> /\ build.openai # <<>>
    /\ Len(build.messages) = 2 /\ build.messages[1] # build.messages[2]
    /\ build.option.kind = "object"
    /\ DOMAIN build.option.opts = {"model", "temperature"}
    /\ build.ollama[1].model = <<"other">>

-----------------------------------------------------------------------------
\* The number of descriptors in the catalogs of the providers before i.
RECURSIVE Offset(_)
Offset(i) == IF i <= 1 THEN 0 ELSE Offset(i - 1) + Len(get_models(providers[i - 1]))

\* C18. Catalog aggregation: the model list GET /api/tags answers with is
\* the concatenation of every provider's catalog in configuration order,
\* each provider's descriptors in its own order, nothing dropped, reordered
\* or de-duplicated; while the handler runs, its list is that concatenation
\* for the providers it has read.
C18_TagsIsConcatenation ==
    request.endpoint = "tags" =>
        /\ Len(tags_models) = Offset(scan)
        /\ \A p \in Places :
            p[1] < scan => tags_models[Offset(p[1]) + p[2]] = Descriptor(p[1], p[2])
        /\ hpc = "done" => (scan = Len(providers) + 1 /\ response.status = 200)

\* C18 happens: GET /api/tags has answered for two providers with catalogs
\* that are not empty, and two descriptors of the answer have the same
\* namespaced name.
C18_Witness ==
    /\ request.endpoint = "tags" /\ hpc = "done"
    /\ Len(providers) = 2
    /\ get_models(providers[1]) # <<>> /\ get_models(providers[2]) # <<>>
    /\ get_models(providers[1]) # get_models(providers[2])
    /\ \E a, b \in 1..Len(tags_models) : a # b /\ tags_models[a].model = tags_models[b].model

-----------------------------------------------------------------------------
\* The lines of the first k items.
RECURSIVE LinesOf(_)
LinesOf(k) == IF k = 0 THEN <<>> ELSE LinesOf(k - 1) \o to_line(items[k])

\* C19. Mid-stream errors are recovered at the request boundary in streaming
\* mode: when the provider stream yields an error item while a streaming
\* /api/chat body is written, the handler ends the body there, with the
\* lines of the chunks before the error and no line after it, and raises no
\* panic.
C19_MidStreamErrorRecovered ==
    (StreamingChat /\ consumed > 0 /\ ~items[consumed].ok)
        => /\ hpc = "done"
           /\ body = LinesOf(consumed - 1)

-----------------------------------------------------------------------------
\* The OllamaStyle decoder has decoded a line carrying a message and
\* done=true.
DoneDecoded == IsOllama /\ DoneChunks # {}

\* C20. The OllamaStyle decoder stops at done=true: once a line carrying a
\* message and done=true is decoded, its chunk is the last item and the
\* stream has ended; from then on nothing is read, parsed or yielded, so
\* lines left in the buffer and later fragments give no item.
C20_StopsAtDone ==
    /\ [](DoneDecoded =>
            /\ dpc = "end"
            /\ items[Len(items)] = StreamChatChunk(model, items[Len(items)].content, TRUE)
            /\ \A i \in 1..(Len(items) - 1) : items[i].ok /\ ~items[i].done)
    /\ [][DoneDecoded => UNCHANGED <<items, buffer, pos, dpc>>]_vars

\* C20 happens: the decoder stopped at a done line while a complete line
\* that is not JSON was left in its buffer and a part of the body was still
\* to come, and the handler has finished.
C20_Witness ==
    /\ DoneDecoded /\ hpc = "done"
    /\ find(buffer) # 0
    /\ FirstLine(buffer) # <<>>
    /\ ~from_str_OllamaChatChunk(FirstLine(buffer)).ok
    /\ pos < Len(upstream.body)

-----------------------------------------------------------------------------
\* A line without a `message` field that carries done=true.
MessagelessDone(line) ==
    LET chunk == from_str_OllamaChatChunk(line)
    IN  line # <<>> /\ chunk.ok /\ ~chunk.message.some /\ chunk.done

\* The OllamaStyle decoder is about to take a complete line off its buffer.
OllamaAtLine == IsOllama /\ dpc = "lines" /\ find(buffer) # 0

\* C21. OllamaStyle decoder, message-less line: a line without a `message`
\* field yields no chunk, but its done flag is still checked: when such a
\* line carries done=true the stream ends at that line, and no line after it
\* is decoded or yielded.
C21_MessagelessDoneEnds ==
    [][(OllamaAtLine /\ MessagelessDone(FirstLine(buffer)) /\ buffer' # buffer)
         => (items' = items /\ dpc' = "end")]_vars

-----------------------------------------------------------------------------
\* The errors of decoding: a line or payload that is not JSON of the
\* expected shape, a transport read error, a fragment that is not UTF-8.
DecodeErrors == {ProviderError("json"), ProviderError("read"), ProviderError("utf8")}

DecodeFailed == \E i \in 1..Len(items) : items[i] \in DecodeErrors

\* C22. Decode errors are terminal in both decoders: a line (or `data:`
\* payload) that is not valid JSON of the expected shape, a transport read
\* error, or a fragment that is not valid UTF-8 makes the stream yield
\* exactly one error item, which is the last item of the stream; the chunks
\* decoded from earlier lines are before it, no later line is parsed, and the
\* OpenAIStyle decoder does not append its terminal chunk after the error.
C22_DecodeErrorsTerminal ==
    /\ [](DecodeFailed =>
            /\ dpc = "end"
            /\ items[Len(items)] \in DecodeErrors
            /\ \A i \in 1..(Len(items) - 1) : items[i].ok)
    /\ [][(~DecodeFailed /\ DecodeFailed') =>
            \E e \in DecodeErrors : items' = Append(items, e)]_vars
    /\ [][DecodeFailed => UNCHANGED <<items, buffer, pos, dpc, stream_ended>>]_vars

\* C22 happens: the OpenAIStyle decoder yielded a chunk, then met a payload
\* that is not JSON and ended with a complete line left in its buffer, and
\* the handler has finished.
C22_Witness ==
    /\ IsOpenAI /\ hpc = "done"
    /\ Len(items) = 2 /\ items[1].ok /\ items[2] = ProviderError("json")
    /\ find(buffer) # 0

-----------------------------------------------------------------------------
\* The OpenAIStyle decoder is about to take a complete line off its buffer.
OpenAIAtLine == IsOpenAI /\ dpc = "lines" /\ find(buffer) # 0

\* What follows `data: ` on a line.
PayloadOf(line) == strip_prefix(line, <<"d", SP>>).rest

\* A `data: ` line whose payload is JSON of the expected shape.
WellFormedPayload(line) ==
    /\ ~IsDoneLine(line)
    /\ strip_prefix(line, <<"d", SP>>).some
    /\ from_str_OpenaiChatChunk(PayloadOf(line)).ok

\* C23. The OpenAIStyle decoder consults only the first choice: for every
\* well-formed `data:` payload, exactly one chunk with done=false is yielded
\* when choices[0].delta.content is present (carrying that text, even if it
\* is the empty string), and no chunk and no error is yielded when the
\* choices list is empty, when choices[0] has no delta, or when the delta has
\* no content; choices after the first never produce a chunk.
C23_FirstChoiceOnly ==
    [][(OpenAIAtLine /\ buffer' # buffer /\ WellFormedPayload(FirstLine(buffer))) =>
         LET choices == from_str_OpenaiChatChunk(PayloadOf(FirstLine(buffer))).choices
         IN  /\ dpc' = "lines"
             /\ IF choices = <<>> THEN items' = items
                ELSE IF ~choices[1].delta THEN items' = items
                ELSE IF ~choices[1].content.some THEN items' = items
                ELSE items' = Append(items,
                         StreamChatChunk(model, choices[1].content.content, FALSE))]_vars

\* C23 happens: of a payload whose first choice has no delta and whose
\* second choice has content, then a payload whose content is the empty
\* string, the stream yielded one chunk, with empty content, and then its
\* terminal chunk.
C23_Witness ==
    /\ IsOpenAI /\ dpc = "end"
    /\ upstream.body = JoinLines(<<SsePayload(<<"{}", ",">> \o ContentChoice(<<"lo">>)),
                                   SsePayload(ContentChoice(<<>>))>>, TRUE)
    /\ items = <<StreamChatChunk(model, <<>>, FALSE), final_chunk(model)>>

-----------------------------------------------------------------------------
\* What the byte stream has delivered so far.
Arrived == SubSeq(upstream.body, 1, pos)

\* The chunks of the message-bearing lines among ls, in the order of ls.
RECURSIVE MessageChunks(_, _)
MessageChunks(ls, m) ==
    IF ls = <<>> THEN <<>>
    ELSE LET chunk == from_str_OllamaChatChunk(trim(Head(ls)))
         IN  (IF chunk.ok /\ chunk.message.some
              THEN <<[ok |-> TRUE, model |-> m, role |-> "assistant",
                      content |-> chunk.message.content, done |-> chunk.done,
                      err |-> "none"]>>
              ELSE <<>>)
             \o MessageChunks(Tail(ls), m)

\* The chunks among the items yielded, in order.
Chunks == SelectSeq(items, LAMBDA it : it.ok)

IsPrefix(s, t) == Len(s) <= Len(t) /\ SubSeq(t, 1, Len(s)) = s

\* C24. The OllamaStyle decoder is one-to-one and order preserving: the k-th
\* chunk yielded corresponds to the k-th complete message-bearing line of
\* the upstream byte stream, with the same content and the same done flag,
\* role "assistant" and the requested local model name; blank lines yield
\* nothing, and no chunk is yielded for a line before that line's
\* terminating newline has arrived.
C24_OneToOneInOrder ==
    /\ [](IsOllama => IsPrefix(Chunks, MessageChunks(Lines(Arrived), model)))
    /\ [][IsOllama => IsPrefix(items, items')]_vars

\* C24 happens: two chunks were yielded for the first two lines, in their
\* order, while the third line, done=true, has arrived whole but for its
\* newline and has given no chunk.
C24_Witness ==
    /\ IsOllama /\ dpc = "next"
    /\ items = <<StreamChatChunk(model, <<"hel">>, FALSE),
                 StreamChatChunk(model, <<"C3", "A9">>, FALSE)>>
    /\ buffer = OllamaMessageLine(<<"lo">>, TRUE)
    /\ pos < Len(upstream.body)

-----------------------------------------------------------------------------
\* The aggregation has taken an error item from the stream.
CollectedError == Collecting /\ consumed > 0 /\ ~items[consumed].ok

\* C25. Aggregation aborts on error and discards partial content: when the
\* chunk stream yields an error item at any position,
\* collect_content_from_stream returns Err without any of the text
\* accumulated so far and pulls no further item from the stream, and the
\* non-streaming /api/chat and /api/generate handlers answer HTTP 500 with
\* no partial answer.
C25_AggregationAbortsOnError ==
    /\ [](CollectedError =>
            /\ hpc = "done"
            /\ response = [status |-> 500, model |-> <<>>, content |-> <<>>,
                           done |-> FALSE])
    /\ [][CollectedError => UNCHANGED <<consumed, items, pos, dpc, response>>]_vars

\* C25 happens: the aggregation held text of two chunks when it took the
\* error item, and the handler answered 500.
C25_Witness ==
    /\ CollectedError /\ consumed = 3
    /\ content # <<>> /\ content = items[1].content \o items[2].content
    /\ response.status = 500

-----------------------------------------------------------------------------
\* The consumer awaits the next item: it is inside stream.next() and has
\* taken every item yielded before.
Pulling == hpc \in {"collect", "relay"} /\ consumed = Len(items)

\* The consumer has let go of the stream: the handler returned or panicked,
\* or the response body was dropped.
Dropped == hpc \in {"done", "dropped", "panic", "unwrap_panic"}

\* The step sends the upstream request or reads from the upstream body.
UpstreamRead == (dpc = "send" /\ dpc' # "send") \/ pos' # pos

\* C26. Pull-driven production and cancellation: a provider chunk stream
\* issues an upstream read only while the consumer is pulling the next item,
\* and once the consumer stops pulling and drops the stream no further
\* upstream read is issued and no further chunk is produced for that request.
C26_PullDriven ==
    /\ [][(UpstreamRead \/ items' # items) => Pulling]_vars
    /\ [][Dropped => (~UpstreamRead /\ items' = items /\ Dropped')]_vars

\* C26 happens: the stream was dropped after its first chunk was relayed,
\* while it was still live and a part of the upstream body was unread.
C26_Witness ==
    /\ hpc = "dropped" /\ consumed = 1 /\ items[1].ok
    /\ dpc \in {"next", "lines"}
    /\ pos < Len(upstream.body)

-----------------------------------------------------------------------------
\* A demo server has sent the whole body of a streaming /api/chat response.
DemoStreamed == demo # <<>> /\ demo.pc = "done" /\ demo.status = 200 /\ demo.stream # "false"

\* C27. The demo servers' simulated stream: in the streaming /api/chat
\* response of each demo server, which emits a fixed list of 10 chunks,
\* exactly one line has done=true and it is the last line of the body; no
\* line follows the done=true line.
C27_DemoDoneLineIsLast ==
    DemoStreamed =>
        /\ Len(demo.lines) = 10
        /\ demo.lines[10].done
        /\ \A k \in 1..9 : ~demo.lines[k].done

-----------------------------------------------------------------------------
\* The OpenAIStyle stream is over and has yielded no error item.
OpenAIEndedClean == IsOpenAI /\ dpc = "end" /\ ErrorFree(items)

\* C28. The OpenAIStyle decoder always closes an error-free stream with one
\* terminal chunk: when the upstream body reaches its end without any decode
\* or read error, the stream ends with exactly one chunk with empty content
\* and done=true, whether or not a `data: [DONE]` line was ever received.
C28_OneTerminalChunk ==
    OpenAIEndedClean =>
        /\ items # <<>>
        /\ items[Len(items)].content = <<>> /\ items[Len(items)].done
        /\ items[Len(items)].model = model
        /\ \A i \in 1..(Len(items) - 1) : ~items[i].done

\* C28 happens: a body without `data: [DONE]` was read to its end and the
\* stream closed with the terminal chunk after a content chunk.
C28_Witness ==
    /\ OpenAIEndedClean
    /\ ~HasDoneLine(upstream.body) /\ pos = Len(upstream.body)
    /\ Len(items) = 2 /\ items[1].content # <<>>

-----------------------------------------------------------------------------
\* The index of the last LF of s, 0 when it has none.
RECURSIVE LastLF(_)
LastLF(s) ==
    IF s = <<>> THEN 0 ELSE IF s[Len(s)] = LF THEN Len(s)
    ELSE LastLF(SubSeq(s, 1, Len(s) - 1))

\* s without what follows its last LF.
WithoutTrailing(s) == SubSeq(s, 1, LastLF(s))

\* The stream is over, the whole upstream body was delivered to it and every
\* fragment went into the buffer.
ReadToEnd ==
    /\ Resolved /\ dpc = "end" /\ pos = Len(upstream.body)
    /\ upstream.send = "ok" /\ ~Yielded("read") /\ ~Yielded("utf8")

\* C29. Unterminated trailing data is dropped at end-of-stream: in both
\* decoders, bytes left in the buffer when the upstream body ends (a last
\* line without a terminating newline) are never parsed; they yield no chunk
\* and no error, so the stream yields what it yields for the body without
\* them, and an Ollama final line with done=true that lacks a trailing
\* newline is never emitted.
C29_TrailingDataDropped ==
    ReadToEnd =>
        items = IF api_type = "Ollama"
                THEN OllamaWhole(WithoutTrailing(upstream.body), model)
                ELSE OpenAIWhole(WithoutTrailing(upstream.body), model)

\* C29 happens: the body ended inside its final line, done=true; the line is
\* still in the buffer of the OllamaStyle decoder, the stream is over and
\* has yielded the chunk before it only.
C29_Witness ==
    /\ ReadToEnd /\ IsOllama
    /\ buffer = OllamaMessageLine(<<"lo">>, TRUE)
    /\ items = <<StreamChatChunk(model, <<"hel">>, FALSE)>>

-----------------------------------------------------------------------------
\* A non-empty trimmed line that is neither the sentinel nor a `data: `
\* line.
NonDataLine(line) ==
    /\ line # <<>>
    /\ line # <<"d", SP, "DONE">>
    /\ ~(Len(line) >= 2 /\ line[1] = "d" /\ line[2] = SP)

\* C30. The OpenAIStyle decoder ignores non-data lines: a non-empty line
\* that, after trimming, is neither `data: [DONE]` nor starts with the exact
\* prefix `data: ` (for example an `event:` line, a `:` comment or `data:`
\* without the following space) yields no chunk and no error and does not
\* end the stream, whatever its content.
C30_NonDataLinesIgnored ==
    [][(OpenAIAtLine /\ buffer' # buffer /\ NonDataLine(FirstLine(buffer))) =>
         /\ items' = items
         /\ dpc' = "lines"
         /\ stream_ended' = FALSE]_vars

\* C30 happens: after `data:[DONE]`, written without the space, the decoder
\* went on, yielded the chunk of the next line and closed the stream at the
\* end of the body.
C30_Witness ==
    /\ IsOpenAI /\ dpc = "end"
    /\ upstream.body = JoinLines(<<<<"d", "DONE">>,
                                   SsePayload(ContentChoice(<<"Hi">>))>>, TRUE)
    /\ items = <<StreamChatChunk(model, <<"Hi">>, FALSE), final_chunk(model)>>

-----------------------------------------------------------------------------
\* No upstream catalog fetch has given a non-empty list so far: each one
\* failed or listed nothing.
NoCatalogYet == \A j \in 1..Len(fetch_log) : fetch_log[j].models = <<>>

\* Caller c leaves get_models_cached through its last line.
Stores(c) == cpc[c] = "store" /\ cpc'[c] = "done"

\* C31. A catalog fetch failure is swallowed and retried: when the upstream
\* catalog fetch fails or returns an empty list, get_models_cached returns
\* an empty catalog, the cache stays empty, and every later
\* get_models_cached call issues a new upstream fetch until one returns a
\* non-empty list.
C31_FetchFailureRetried ==
    /\ [](NoCatalogYet =>
            /\ cache = <<>>
            /\ Len(fetch_log) >= Len(returns)
            /\ \A i \in 1..Len(returns) : returns[i].miss /\ returns[i].models = <<>>)
    /\ [][\A c \in Callers :
            (Stores(c) /\ fetched[c] = <<>>) =>
                /\ cache' = <<>>
                /\ returns' = Append(returns, [caller |-> c, models |-> <<>>,
                                               miss |-> TRUE])]_vars
    /\ [][\A c \in Callers :
            (cpc[c] = "read" /\ cpc'[c] # "read" /\ cache = <<>>) =>
                (cpc'[c] = "fetch" /\ returns' = returns)]_vars

\* C31 happens: one fetch failed and one listed nothing, both calls
\* returned the empty catalog, the cache is empty and a third call has found
\* it so and is about to fetch.
C31_Witness ==
    /\ NoCatalogYet /\ cache = <<>>
    /\ Len(returns) = 2 /\ Len(fetch_log) = 2
    /\ \E i, j \in 1..2 : ~fetch_log[i].ok /\ fetch_log[j].ok
    /\ \E c \in Callers : cpc[c] = "fetch"

-----------------------------------------------------------------------------
\* The positions in the catalog of provider i that hold the requested
\* namespaced name.
Holds(i) ==
    {j \in 1..Len(get_models(providers[i])) :
        get_models(providers[i])[j].model = request.model}

\* The providers whose catalog holds the requested namespaced name.
Holders == {i \in 1..Len(providers) : Holds(i) # {}}

Least(S) == CHOOSE x \in S : \A y \in S : x <= y

\* A request that unmap_model serves.
ChatOrGenerate == request.endpoint \in {"chat", "generate"}

\* C32. Resolution is first-match in configuration order: unmap_model
\* queries the providers' catalogs in configuration order and returns the
\* first provider that has a descriptor with the requested namespaced name;
\* when several providers hold the same namespaced name the earliest
\* configured one is always chosen, and the catalogs of providers after the
\* match are not queried.
C32_FirstMatchInOrder ==
    /\ []((ChatOrGenerate /\ Resolved) =>
            /\ Holders # {} /\ provider = Least(Holders)
            /\ model = get_models(providers[provider])[Least(Holds(provider))].name
            /\ scan = provider)
    /\ []((ChatOrGenerate /\ ~Resolved /\ hpc = "unmap") =>
            \A i \in 1..(scan - 1) : i \notin Holders)
    /\ [][(ChatOrGenerate /\ scan' # scan) => (scan' = scan + 1 /\ ~Resolved)]_vars

\* C32 happens: both providers of the registry hold the requested
\* namespaced name, the first was chosen and has answered, and the catalog
\* of the second was never queried.
C32_Witness ==
    /\ ChatOrGenerate /\ Resolved /\ hpc = "done"
    /\ Holders = {1, 2}
    /\ provider = 1 /\ scan = 1

-----------------------------------------------------------------------------
\* The provider-local name of the descriptor unmap_model found.
LocalName == get_models(providers[provider])[Least(Holds(provider))].name

\* The body lines of the chunks among the first k items, each written with
\* the model name m.
RECURSIVE LinesNamed(_, _)
LinesNamed(k, m) ==
    IF k = 0 THEN <<>>
    ELSE LinesNamed(k - 1, m)
         \o (IF items[k].ok
             THEN <<"{", "model:">> \o m \o <<",", "M">> \o items[k].content
                    \o <<"m", IF items[k].done THEN "T" ELSE "F", "}", LF>>
             ELSE <<>>)

\* C33. Responses carry the local model name: for every resolved request,
\* the `model` field of each streamed chunk and of the non-streaming
\* /api/chat and /api/generate responses is the provider-local model name
\* returned by unmap_model, not the namespaced name the client sent.
C33_LocalModelName ==
    []((ChatOrGenerate /\ Resolved) =>
          /\ LocalName # request.model
          /\ \A i \in 1..Len(items) : items[i].ok => items[i].model = LocalName
          /\ StreamingChat => body = LinesNamed(consumed, LocalName)
          /\ (Collecting /\ response.status = 200) => response.model = LocalName)

\* C33 happens: a non-streaming request named [oa]-gpt was answered 200 with
\* model gpt, from chunks that carry gpt.
C33_Witness ==
    /\ Collecting /\ hpc = "done" /\ response.status = 200
    /\ request.model = <<"[", "oa", "]", "-", "gpt">>
    /\ response.model = <<"gpt">>
    /\ Len(items) >= 2 /\ items[1].model = <<"gpt">>

-----------------------------------------------------------------------------
\* The stream was handed to its consumer and has not ended.
StreamLive == dpc \in {"send", "next", "lines", "final"}

\* C34. Termination: for every finite upstream response (finitely many
\* fragments followed by the end of the stream or a read error) and a
\* consumer that keeps pulling, each provider's chunk stream eventually ends
\* after finitely many items, and collect_content_from_stream eventually
\* returns.
C34_Termination ==
    /\ StreamLive ~> (dpc = "end")
    /\ (hpc = "collect") ~> (hpc = "done" /\ response.status \in {200, 500})
    /\ [](Len(items) <= Len(Lines(upstream.body)) + 1)

\* C34 happens: a stream that yielded two items has ended and
\* collect_content_from_stream has returned.
C34_Witness ==
    /\ Collecting /\ hpc = "done" /\ dpc = "end"
    /\ Len(items) = 2 /\ consumed = 2
    /\ pos = Len(upstream.body)
-----------------------------------------------------------------------------
\* The decoder is about to wait for the next fragment of the upstream body.
AwaitsFragment == dpc = "next"

\* What arrived after the last LF of s.
AfterLastLF(s) == SubSeq(s, LastLF(s) + 1, Len(s))

\* A complete line of s is the `data: [DONE]` sentinel.
RECURSIVE SawDone(_)
SawDone(s) ==
    IF find(s) = 0 THEN FALSE
    ELSE IsDoneLine(FirstLine(s)) \/ SawDone(Drain(s))

\* C35. Line-buffer invariant: each time the OllamaStyle decoder is about to
\* wait for the next fragment, its buffer contains no newline character and
\* holds exactly the bytes received after the last newline; the same holds
\* for the OpenAIStyle decoder as long as no `data: [DONE]` line has been
\* seen.
C35_LineBuffer ==
    /\ (AwaitsFragment /\ IsOllama)
          => (find(buffer) = 0 /\ buffer = AfterLastLF(Arrived))
    /\ (AwaitsFragment /\ IsOpenAI /\ ~SawDone(Arrived))
          => (find(buffer) = 0 /\ buffer = AfterLastLF(Arrived))

\* The second fragment ended inside a line, after a line that gave a chunk.
C35_Witness ==
    /\ AwaitsFragment /\ IsOllama
    /\ Len(items) = 1 /\ LastLF(Arrived) > 0
    /\ buffer # <<>>
    /\ pos < Len(upstream.body)

====
